---- MODULE Spec2Model ----
(***************************************************************************)
(* Playback engine of mcp-midi: the Song event log, its sorted view, the   *)
(* play() coroutine, the per-note _schedule_note_off timers and the        *)
(* start_playback / stop_playback entry points, under asyncio's            *)
(* cooperative scheduling.  Time is a discrete clock; one unit is the      *)
(* smallest gap between two event times of the modelled songs.             *)
(***************************************************************************)
EXTENDS Integers, Sequences, FiniteSets, TLC

\* ---------------------------------------------------------------- bounds
MaxEvents == 2      \* size of the Song: its events, a chord counting once per pitch
MaxLoad == 4        \* size of the Song times the runs of play() begun or pending
MaxFaults == 1      \* times the send capability raises
MaxLag == 1         \* units of time by which play() resumes late

\* ------------------------------------------------- inputs of the add_* calls
\* <<pitch, time, duration>> of the notes, <<notes, time, duration>> of the
\* chords, and the channel of every event that has one
NoteInputs == {<<60, 0, 1>>, <<60, 0, 3>>, <<60, 2, 0>>, <<62, 2, 1>>}
ChordInputs == {<<(<<60, 64>>), 0, 2>>}
Channels == {0}

\* ------------------------------------------------------------- event model
NOTE == "note"
CHORD == "chord"
REST == "rest"
PROGRAM_CHANGE == "program_change"
CONTROL_CHANGE == "control_change"

Note(pitch, time, dur, velocity, channel) ==
    [event_type |-> NOTE, time |-> time, duration |-> dur, channel |-> channel,
     pitch |-> pitch, velocity |-> velocity]

Chord(notes, time, dur, velocity, channel) ==
    [event_type |-> CHORD, time |-> time, duration |-> dur, channel |-> channel,
     notes |-> notes, velocity |-> velocity]

Max(a, b) == IF a > b THEN a ELSE b

\* Rest.__post_init__ clamps the duration at 0; the channel keeps its default.
Rest(time, dur) ==
    [event_type |-> REST, time |-> time, duration |-> Max(0, dur), channel |-> 0]

ProgramChange(program, time, channel) ==
    [event_type |-> PROGRAM_CHANGE, time |-> time, duration |-> 0,
     channel |-> channel, program |-> program]

ControlChange(control, value, time, channel) ==
    [event_type |-> CONTROL_CHANGE, time |-> time, duration |-> 0,
     channel |-> channel, control |-> control, value |-> value]

VARIABLES
    events,              \* Song.events, the append log
    sorted_events,       \* Song.sorted_events, the cached sorted view
    is_sorted,           \* Song.is_sorted
    duration,            \* Song.duration
    is_playing,          \* Song._is_playing
    stop_event,          \* Song._stop_event (set or clear)
    send_midi_callback,  \* TRUE when a send capability is bound
    tasks,               \* the unfinished tasks start_playback created, oldest
                         \* first; Song._task is the last, or None or done
    pc,                  \* where the play() coroutine is
    runner,              \* 0: play() awaited directly; t: run by tasks[t]
    idx,                 \* position of play()'s for loop in walk
    last_event_time,     \* play()'s local
    elapsed,             \* time.time() - start_time, while play() runs
    active_notes,        \* play()'s local dict, in insertion order
    walk,                \* the list object play()'s for loop iterates
    remaining,           \* time left until the inter-event wait times out
    wake,                \* what resolved the inter-event wait
    timers,              \* the _schedule_note_off tasks that have not finished
    sent,                \* the messages the send capability accepted since the
                         \* latest run began, in order
    report,              \* the last line the Song logged, and the method
                         \* that logged it
    hist,                \* one record per run begun: how it ended, what it
                         \* walked, and where in sent its stop was requested
    faults,              \* times the send capability has raised
    lag,                 \* units of time by which play() has resumed late
    stop_asked           \* TRUE when stop_playback() has been called since
                         \* the latest call of start_playback() or play()
                         \* that was not refused

\* The SongManager and the Songs it holds
VARIABLES
    songs,               \* SongManager.songs: the keys of the dict
    current_song,        \* SongManager.current_song: its key, or None
    manager_callback,    \* TRUE when SongManager.send_midi_callback is bound
    held,                \* per name, the Song object last stored under it:
                         \* _is_playing, _stop_event, send_midi_callback, _task
    returned,            \* the method of the manager called last and what it
                         \* returned: "True", "False" or "None"
    delivered            \* messages the Songs of the manager have sent

\* MidiFilePlayer.convert_to_song, which builds a Song in events; times are in
\* microseconds
VARIABLES
    midi_files,          \* MidiFilePlayer.midi_files: per name loaded, the
                         \* ticks_per_beat of its file
    stage,               \* where convert_to_song is: "idle" before the call,
                         \* "converting" inside the loops, "done" after it
    ticks_per_beat,      \* midi_file.ticks_per_beat; 0 while no file is
                         \* being converted
    track_idx,           \* the track the outer loop is at; 0 before the first
    absolute_time,       \* convert_to_song's local
    read,                \* the messages the loops have gone through, in
                         \* order, each with the track it is in
    converted            \* what convert_to_song returned: "Song" or "None";
                         \* "none" before it returns

importVars == <<midi_files, stage, ticks_per_beat, track_idx, absolute_time, read,
                converted>>

\* The tracker compiler: a text document, and what is made of it
VARIABLES
    content,             \* the tracker document, line by line
    midi_commands,       \* what tracker_to_midi_commands(
                         \* parse_tracker_content(content)) returned last
    compiled,            \* how that call ended: "returned" or "raised";
                         \* "none" before it
    created              \* what create_midi_song returned last: its
                         \* "status" and the name it was called with

trackerVars == <<content, midi_commands, compiled, created>>

\* The client that turns a model's reply into MCP requests
VARIABLES
    request_id,          \* ClaudeClient.request_id
    posted,              \* the payloads handed to requests.post, in order
    text,                \* the ```midi blocks of the text processed last,
                         \* in the order they stand in it
    processed            \* how process_claude_response ended last:
                         \* "returned" or "AttributeError"; "none" before it

clientVars == <<request_id, posted, text, processed>>

\* The module that tracks the notes that sound (all_notes_off.py)
VARIABLES
    tracked,             \* all_notes_off.active_notes: per channel, the list
                         \* of the notes registered
    emitted              \* what the last call of all_notes_off gave its
                         \* sinks, in order; empty after any other call

trackingVars == <<tracked, emitted>>

\* The MidiFilePlayer as a player of files
VARIABLES
    playback_task,       \* MidiFilePlayer.playback_task: "none" for None,
                         \* else "pending" (created, not run yet) or "done"
    task_file,           \* the name that task was created to play
    current_file,        \* MidiFilePlayer.current_file: a name, or None
    file_stop_event,     \* MidiFilePlayer.stop_event is set
    player_callback,     \* MidiFilePlayer.send_midi_callback is bound
    file_sent,           \* messages of files given to the callback so far
    answered,            \* the method of the player called last and what it
                         \* returned: "True" or "False"
    stop_called          \* TRUE when stop_playback() has been called since
                         \* the latest start_playback() that returned True

filePlayVars == <<playback_task, task_file, current_file, file_stop_event,
                  player_callback, file_sent, answered, stop_called>>

\* The HTTP server in front of the output ports
VARIABLES
    devices,             \* how many output ports the system has; rtmidi
                         \* lists them as 0 .. devices - 1
    midi_ports,          \* the ids in the server's midi_ports
    active_ports,        \* the ids in the server's active_ports
    opened,              \* how often mido.open_output was called, by port id
    port_sent,           \* the messages given to port.send, in order, each
                         \* with the id of its port
    registered,          \* all_notes_off.active_notes, as <<channel, note>>
    response,            \* what the last request was answered with
    serving              \* FALSE once the server has shut down

serverVars == <<devices, midi_ports, active_ports, opened, port_sent,
                registered, response, serving>>

managerVars == <<songs, current_song, manager_callback, held, returned,
                 delivered>>

vars == <<events, sorted_events, is_sorted, duration, is_playing, stop_event,
          send_midi_callback, tasks, pc, runner, idx, last_event_time,
          elapsed, active_notes, walk, remaining, wake, timers, sent,
          report, hist, faults, lag, stop_asked, managerVars, importVars,
          trackerVars, clientVars, serverVars, trackingVars, filePlayVars>>

playerVars == <<events, sorted_events, is_sorted, duration, is_playing,
                stop_event, send_midi_callback, tasks, pc, runner, idx,
                last_event_time, elapsed, active_notes, walk, remaining, wake,
                timers, sent, report, hist, faults, lag, stop_asked>>

\* No conversion has begun
MidiFilePlayerInit ==
    /\ midi_files = <<>>
    /\ stage = "idle"
    /\ ticks_per_beat = 0
    /\ track_idx = 0
    /\ absolute_time = 0
    /\ read = <<>>
    /\ converted = "none"

\* The most output ports the system gets, and the most messages a server
\* is followed for
MaxDevices == 2
MaxSent == 2

\* The port ids requests name; the last is the id of no port
PortIds == 0..MaxDevices

\* None, where a name of a file is expected
NoFile == "None"

\* MidiFilePlayer.__init__, as far as playback goes
FilePlayInit ==
    /\ playback_task = "none"
    /\ task_file = NoFile
    /\ current_file = NoFile
    /\ file_stop_event = FALSE
    /\ player_callback = FALSE
    /\ file_sent = 0
    /\ answered = [by |-> "__init__", value |-> "none"]
    /\ stop_called = FALSE

\* The highest channel followed; all_notes_off.py keeps a list for each of
\* the 16 MIDI channels, 0..15
MaxChannel == 1

\* all_notes_off.py as imported: an empty list for each channel
TrackingInit ==
    /\ tracked = [c \in 0..MaxChannel |-> <<>>]
    /\ emitted = <<>>

\* The server module as imported, no port attached yet
ServerInit ==
    /\ devices = 0
    /\ midi_ports = {}
    /\ active_ports = {}
    /\ opened = [p \in PortIds |-> 0]
    /\ port_sent = <<>>
    /\ registered = {}
    /\ response = "none"
    /\ serving = TRUE

\* ClaudeClient.__init__; nothing has been processed
ClaudeClientInit ==
    /\ request_id = 0
    /\ posted = <<>>
    /\ text = <<>>
    /\ processed = "none"

\* No document has been written, nothing has been compiled
TrackerInit ==
    /\ content = <<>>
    /\ midi_commands = <<>>
    /\ compiled = "none"
    /\ created = [status |-> "none", name |-> "none"]

\* The names Songs are given, and the keys add_song derives from them:
\* <<name, 0>> is the name itself, <<name, i>> is name_i.
SongNames == {"a", "b"}
Keys == {<<"a", 0>>, <<"a", 1>>, <<"b", 0>>}
None == <<"None", 0>>

\* A Song as Song.__init__ leaves it
NewSong == [is_playing |-> FALSE, stop_event |-> FALSE,
            send_midi_callback |-> FALSE, task |-> "none"]

\* SongManager.__init__
SongManagerInit ==
    /\ songs = {}
    /\ current_song = None
    /\ manager_callback = FALSE
    /\ held = [k \in Keys |-> NewSong]
    /\ returned = [by |-> "__init__", value |-> "None"]
    /\ delivered = 0

songVars == <<events, sorted_events, is_sorted, duration>>
runVars == <<pc, runner, idx, last_event_time, elapsed, active_notes, walk,
             remaining, wake>>

\* Song.__init__
Init ==
    /\ events = <<>>
    /\ sorted_events = <<>>
    /\ is_sorted = FALSE
    /\ duration = 0
    /\ is_playing = FALSE
    /\ stop_event = FALSE
    /\ send_midi_callback = FALSE
    /\ tasks = <<>>
    /\ pc = "idle"
    /\ runner = 0
    /\ idx = 0
    /\ last_event_time = 0
    /\ elapsed = 0
    /\ active_notes = <<>>
    /\ walk = <<>>
    /\ remaining = 0
    /\ wake = "none"
    /\ timers = {}
    /\ sent = <<>>
    /\ report = [by |-> "__init__", msg |-> "none"]
    /\ hist = <<>>
    /\ faults = 0
    /\ lag = 0
    /\ stop_asked = FALSE
    /\ SongManagerInit
    /\ MidiFilePlayerInit
    /\ TrackerInit
    /\ ClaudeClientInit
    /\ ServerInit
    /\ TrackingInit
    /\ FilePlayInit

\* play() runs from one await to the next without yielding: while it is
\* between awaits no other coroutine, callback or caller runs.
Busy == pc \in {"walk", "dispatch", "cleanup"}

\* --------------------------------------------------------- Song: edits
\* A duration that follows the end of the last event appended
LastEventEnd(d, e) == e.time + e.duration

\* The duration of a Song of duration d once e is appended
potential_duration(d, e) ==
    IF e.time + e.duration > d THEN e.time + e.duration ELSE d

\* An add_event that appends and leaves the sorted flag as it was
AppendsOnly(e) ==
    /\ events' = Append(events, e)
    /\ duration' = potential_duration(duration, e)
    /\ UNCHANGED <<sorted_events, is_sorted>>

\* Song.add_event
add_event(e) ==
    /\ events' = Append(events, e)
    /\ is_sorted' = FALSE
    /\ duration' = potential_duration(duration, e)
    /\ UNCHANGED sorted_events

\* An insertion that puts e before the elements of equal key
InsertBeforeTies(s, e) ==
    LET k == Cardinality({i \in 1..Len(s) : s[i].time < e.time})
    IN  SubSeq(s, 1, k) \o <<e>> \o SubSeq(s, k + 1, Len(s))

\* The position sorted() gives e in an already sorted s: after every element
\* whose key is not greater (Python's sort is stable).
InsertByTime(s, e) ==
    LET k == Cardinality({i \in 1..Len(s) : s[i].time <= e.time})
    IN  SubSeq(s, 1, k) \o <<e>> \o SubSeq(s, k + 1, Len(s))

\* A sort that copies the list as it is
Unsorted(s) == s

RECURSIVE Sorted(_)
\* sorted(self.events, key=lambda e: e.time)
Sorted(s) ==
    IF s = <<>> THEN <<>>
    ELSE InsertByTime(Sorted(SubSeq(s, 1, Len(s) - 1)), s[Len(s)])

\* The Song is composed, and bound to its send capability, before its first
\* playback is requested.
Composing == hist = <<>> /\ tasks = <<>>

\* What an event adds to the size of the Song
Weight(e) == IF e.event_type = CHORD THEN Len(e.notes) ELSE 1

RECURSIVE Size(_)
Size(s) == IF s = <<>> THEN 0 ELSE Weight(s[1]) + Size(Tail(s))

\* The Song stays within MaxEvents.
CanAdd(e) == Composing /\ Size(events) + Weight(e) <= MaxEvents

\* n runs of the Song stay within MaxLoad.
WithinLoad(n) == n * Max(1, Size(events)) <= MaxLoad

\* Song.add_note
AddNote ==
    /\ \E n \in NoteInputs, c \in Channels :
          /\ CanAdd(Note(n[1], n[2], n[3], 64, c))
          /\ add_event(Note(n[1], n[2], n[3], 64, c))
    /\ UNCHANGED <<is_playing, stop_event, send_midi_callback, tasks, runVars,
                   timers, sent, report, hist, faults, lag>>

\* Song.add_chord
AddChord ==
    /\ \E n \in ChordInputs, c \in Channels :
          /\ CanAdd(Chord(n[1], n[2], n[3], 64, c))
          /\ add_event(Chord(n[1], n[2], n[3], 64, c))
    /\ UNCHANGED <<is_playing, stop_event, send_midi_callback, tasks, runVars,
                   timers, sent, report, hist, faults, lag>>

\* Song.add_rest
AddRest ==
    /\ CanAdd(Rest(0, 1))
    /\ add_event(Rest(0, 1))
    /\ UNCHANGED <<is_playing, stop_event, send_midi_callback, tasks, runVars,
                   timers, sent, report, hist, faults, lag>>

\* Song.add_program_change
AddProgramChange ==
    /\ \E c \in Channels :
          /\ CanAdd(ProgramChange(5, 0, c))
          /\ add_event(ProgramChange(5, 0, c))
    /\ UNCHANGED <<is_playing, stop_event, send_midi_callback, tasks, runVars,
                   timers, sent, report, hist, faults, lag>>

\* Song.add_control_change
AddControlChange ==
    /\ \E c \in Channels :
          /\ CanAdd(ControlChange(7, 100, 2, c))
          /\ add_event(ControlChange(7, 100, 2, c))
    /\ UNCHANGED <<is_playing, stop_event, send_midi_callback, tasks, runVars,
                   timers, sent, report, hist, faults, lag>>

\* Song.set_midi_callback
SetMidiCallback ==
    /\ hist = <<>>
    /\ send_midi_callback' = TRUE
    /\ UNCHANGED <<songVars, is_playing, stop_event, tasks, runVars, timers,
                   sent, report, hist, faults, lag>>

\* ------------------------------------------------------------ messages
\* What the send capability is called with, and who called it: play()'s
\* dispatch of walk[ev] (k-th pitch of a chord), its cleanup pass, or the
\* note-off timer of that note.
Msg(kind, params, by, run, ev, k) ==
    [kind |-> kind, params |-> params, by |-> by, run |-> run, ev |-> ev, k |-> k]

NoteOn(pitch, velocity, channel, run, ev, k) ==
    Msg("note_on", [note |-> pitch, velocity |-> velocity, channel |-> channel],
        "play", run, ev, k)

NoteOff(pitch, channel, by, run, ev, k) ==
    Msg("note_off", [note |-> pitch, channel |-> channel], by, run, ev, k)

\* The calls of the send capability that dispatching event e makes, in order.
DispatchMsgs(e, run, ev) ==
    CASE e.event_type = NOTE ->
            <<NoteOn(e.pitch, e.velocity, e.channel, run, ev, 1)>>
      [] e.event_type = CHORD ->
            [k \in 1..Len(e.notes) |->
                NoteOn(e.notes[k], e.velocity, e.channel, run, ev, k)]
      [] e.event_type = PROGRAM_CHANGE ->
            <<Msg("program_change", [program |-> e.program, channel |-> e.channel],
                  "play", run, ev, 1)>>
      [] e.event_type = CONTROL_CHANGE ->
            <<Msg("control_change",
                  [control |-> e.control, value |-> e.value, channel |-> e.channel],
                  "play", run, ev, 1)>>
      [] OTHER -> <<>>

\* active_notes[(pitch, channel)] = stop_time on a dict that keeps the order
\* in which its keys were first inserted.
DictSet(d, pitch, channel, stop_time) ==
    IF \E i \in 1..Len(d) : d[i].pitch = pitch /\ d[i].channel = channel
    THEN [i \in 1..Len(d) |->
            IF d[i].pitch = pitch /\ d[i].channel = channel
            THEN [d[i] EXCEPT !.stop_time = stop_time] ELSE d[i]]
    ELSE Append(d, [pitch |-> pitch, channel |-> channel, stop_time |-> stop_time])

RECURSIVE Register(_, _, _)
\* active_notes after the first n note_on messages of ms were sent for event e
Register(d, e, ms) ==
    IF ms = <<>> THEN d
    ELSE Register(DictSet(d, ms[1].params.note, ms[1].params.channel,
                          e.time + e.duration),
                  e, Tail(ms))

\* asyncio.create_task(self._schedule_note_off(pitch, channel, duration))
NewTimer(m, dur) ==
    [pitch |-> m.params.note, channel |-> m.params.channel, duration |-> dur,
     st |-> "new", remaining |-> 0, run |-> m.run, ev |-> m.ev, k |-> m.k]

\* An Event that keeps its flag
NotCleared(flag) == flag

\* asyncio.Event.clear() of self._stop_event.clear()
clear(flag) == FALSE

\* ------------------------------------------------------- play(): begin
\* Song.play from its third check to the head of the for loop, run by r
\* (0: awaited directly; t: the body of tasks[t]).
BeginRun(r) ==
    /\ WithinLoad(Len(hist) + 1)
    /\ sorted_events' = IF is_sorted THEN sorted_events ELSE Sorted(events)
    /\ is_sorted' = TRUE
    /\ is_playing' = TRUE
    /\ stop_event' = clear(stop_event)
    /\ report' = [by |-> "play", msg |-> "playing"]
    /\ active_notes' = <<>>
    /\ elapsed' = 0
    /\ last_event_time' = 0
    /\ walk' = sorted_events'
    /\ idx' = 1
    /\ pc' = "walk"
    /\ runner' = r
    /\ hist' = Append([i \in 1..Len(hist) |-> [hist[i] EXCEPT !.stopAt = -1]],
                      [walk |-> walk', end |-> "running", stopAt |-> -1])
    /\ sent' = <<>>
    /\ UNCHANGED <<events, duration, send_midi_callback, remaining, wake, timers,
                   faults, lag>>

\* A check that never finds the Song playing
NeverPlaying == FALSE

\* `if self._is_playing:` at the head of play() and of start_playback()
AlreadyPlaying == is_playing

\* A check that takes the send capability for bound
CallbackAssumed == TRUE

\* `if not self.send_midi_callback:` of play(), when the capability is bound
CallbackSet == send_midi_callback

\* Song.play returning at one of its first two checks
PlayRefused ==
    /\ AlreadyPlaying \/ ~CallbackSet
    /\ report' = [by |-> "play",
                   msg |-> IF AlreadyPlaying THEN "already_playing" ELSE "no_callback"]
    /\ UNCHANGED <<songVars, is_playing, stop_event, send_midi_callback, runVars,
                   timers, sent, hist, faults, lag>>

\* A caller awaits song.play()
Play ==
    /\ ~Busy
    /\ \/ PlayRefused /\ UNCHANGED <<tasks, stop_asked>>
       \/ /\ ~AlreadyPlaying /\ CallbackSet /\ BeginRun(0) /\ UNCHANGED tasks
          /\ stop_asked' = FALSE

\* ts without its t-th task, which has finished
Finished(ts, t) == SubSeq(ts, 1, t - 1) \o SubSeq(ts, t + 1, Len(ts))

\* The first step of a task start_playback created: the body of play()
TaskStep(t) ==
    /\ ~Busy
    /\ tasks[t] = "pending"
    /\ \/ PlayRefused /\ tasks' = Finished(tasks, t)
       \/ /\ ~AlreadyPlaying /\ CallbackSet
          /\ BeginRun(t)
          /\ tasks' = [tasks EXCEPT ![t] = "running"]

\* A start_playback() that cancels nothing
KeepTasks(ts) == ts

\* self._task.cancel() when self._task is neither None nor done: the task
\* ends cancelled at its next step, without running any more of play().
CancelLast(ts) ==
    IF ts # <<>> THEN Finished(ts, Len(ts)) ELSE ts

\* Song.start_playback
StartPlayback ==
    /\ ~Busy
    /\ \/ /\ AlreadyPlaying
          /\ report' = [by |-> "start_playback", msg |-> "already_playing"]
          /\ UNCHANGED <<tasks, stop_asked>>
       \/ /\ ~AlreadyPlaying
          /\ WithinLoad(Len(hist) + Len(CancelLast(tasks)) + 1)
          /\ tasks' = Append(CancelLast(tasks), "pending")
          /\ stop_asked' = FALSE
          /\ UNCHANGED report
    /\ UNCHANGED <<songVars, is_playing, stop_event, send_midi_callback, runVars,
                   timers, sent, hist, faults, lag>>

\* Event.set(): every coroutine waiting on the event is woken
Signalled(ts) ==
    {IF t.st = "wait" THEN [t EXCEPT !.st = "signalled"] ELSE t : t \in ts}

\* The run in progress, if any, learns that a stop was requested.
MarkStop(h) ==
    IF h # <<>> /\ h[Len(h)].end = "running" /\ h[Len(h)].stopAt = -1
    THEN [h EXCEPT ![Len(h)].stopAt = Len(sent)] ELSE h

\* Song.stop_playback
StopPlayback ==
    /\ ~Busy
    /\ \/ /\ ~is_playing
          /\ report' = [by |-> "stop_playback", msg |-> "not_playing"]
          /\ UNCHANGED <<stop_event, wake, timers, hist>>
       \/ /\ is_playing
          /\ stop_event' = TRUE
          /\ wake' = IF pc = "wait" /\ wake = "none" /\ ~stop_event
                     THEN "stop" ELSE wake
          /\ timers' = IF stop_event THEN timers ELSE Signalled(timers)
          /\ hist' = MarkStop(hist)
          /\ report' = [by |-> "stop_playback", msg |-> "stopping"]
    /\ stop_asked' = TRUE
    /\ UNCHANGED <<songVars, is_playing, send_midi_callback, tasks, pc, runner,
                   idx, last_event_time, elapsed, active_notes, walk,
                   remaining, sent, faults, lag>>

\* ------------------------------------------------------- play(): the walk
\* The for loop takes its next event, or ends; wait_time decides whether
\* play() suspends in asyncio.wait_for(self._stop_event.wait(), wait_time).
LoopHead ==
    /\ pc = "walk"
    /\ IF idx > Len(walk)
       THEN pc' = "cleanup" /\ UNCHANGED <<remaining, wake>>
       ELSE LET wait_time == walk[idx].time - last_event_time
            IN  IF wait_time > 0
                THEN /\ pc' = "wait"
                     /\ remaining' = wait_time
                     /\ wake' = IF stop_event THEN "stop" ELSE "none"
                ELSE pc' = "dispatch" /\ UNCHANGED <<remaining, wake>>
    /\ UNCHANGED <<songVars, is_playing, stop_event, send_midi_callback, tasks,
                   runner, idx, last_event_time, elapsed, active_notes, walk,
                   timers, sent, report, hist, faults, lag>>

\* The timeout of play()'s wait_for fires: the loop's timer callback runs
\* and schedules play() to resume with TimeoutError.
WaitTimeout ==
    /\ pc = "wait" /\ wake = "none"
    /\ remaining = 0
    /\ wake' = "timeout"
    /\ UNCHANGED <<songVars, is_playing, stop_event, send_midi_callback, tasks,
                   pc, runner, idx, last_event_time, elapsed, active_notes,
                   walk, remaining, timers, sent, report, hist, faults, lag>>

\* play() resumes from wait_for: break when the wait returned, go on to the
\* event when it raised TimeoutError.
PlayResume ==
    /\ pc = "wait" /\ wake # "none"
    /\ pc' = IF wake = "stop" THEN "cleanup" ELSE "dispatch"
    /\ wake' = "none"
    /\ remaining' = 0
    /\ UNCHANGED <<songVars, is_playing, stop_event, send_midi_callback, tasks,
                   runner, idx, last_event_time, elapsed, active_notes, walk,
                   timers, sent, report, hist, faults, lag>>

\* play() is over: its frame, and with it every local, is gone.
Return ==
    /\ pc' = "idle"
    /\ runner' = 0
    /\ idx' = 0
    /\ last_event_time' = 0
    /\ elapsed' = 0
    /\ active_notes' = <<>>
    /\ UNCHANGED walk

\* An exception of the send capability leaves play(): nothing catches it,
\* the coroutine is gone and, with it, the task that ran it.
RunRaised(during) ==
    /\ Return
    /\ hist' = [hist EXCEPT ![Len(hist)].end = during]
    /\ tasks' = IF runner = 0 THEN tasks ELSE Finished(tasks, runner)
    /\ faults' = faults + 1
    /\ UNCHANGED <<is_playing, report>>

\* play() processes walk[idx]: the first n calls of the send capability
\* succeed; when raises, the next one raises.
DispatchEvent(n, raises) ==
    LET e == walk[idx]
        ms == SubSeq(DispatchMsgs(e, Len(hist), idx), 1, n)
        ons == SelectSeq(ms, LAMBDA m : m.kind = "note_on")
    IN  /\ sent' = sent \o ms
        /\ timers' = timers \cup {NewTimer(ons[i], e.duration) : i \in 1..Len(ons)}
        /\ IF raises
           THEN RunRaised("dispatch_failed")
           ELSE /\ last_event_time' = e.time
                /\ active_notes' = Register(active_notes, e, ons)
                /\ IF stop_event
                   THEN pc' = "cleanup" /\ UNCHANGED idx
                   ELSE pc' = "walk" /\ idx' = idx + 1
                /\ UNCHANGED <<is_playing, report, hist, tasks, faults, runner,
                               elapsed, walk>>

Dispatch ==
    /\ pc = "dispatch"
    /\ LET total == Len(DispatchMsgs(walk[idx], Len(hist), idx))
       IN  \/ DispatchEvent(total, FALSE)
           \/ /\ faults < MaxFaults
              /\ \E n \in 0..(total - 1) : DispatchEvent(n, TRUE)
    /\ UNCHANGED <<songVars, stop_event, send_midi_callback, remaining, wake, lag>>

\* The notes of active_notes that the cleanup pass turns off
StillActive(d, current_time) ==
    SelectSeq(d, LAMBDA a : a.stop_time > current_time)

\* The cleanup pass of play() and its return: the first n note_off calls
\* succeed; when raises, the next one raises.
CleanupPass(n, raises) ==
    LET current_time == elapsed
        offs == SubSeq(StillActive(active_notes, current_time), 1, n)
    IN  /\ sent' = sent \o [i \in 1..Len(offs) |->
                       NoteOff(offs[i].pitch, offs[i].channel, "cleanup",
                               Len(hist), 0, 0)]
        /\ IF raises
           THEN RunRaised("cleanup_failed")
           ELSE /\ is_playing' = FALSE
                /\ report' = [by |-> "play", msg |-> "completed"]
                /\ Return
                /\ hist' = [hist EXCEPT ![Len(hist)].end =
                               IF stop_event THEN "stopped" ELSE "completed"]
                /\ tasks' = IF runner = 0 THEN tasks ELSE Finished(tasks, runner)
                /\ UNCHANGED faults

Cleanup ==
    /\ pc = "cleanup"
    /\ LET total == Len(StillActive(active_notes, elapsed))
       IN  \/ CleanupPass(total, FALSE)
           \/ /\ faults < MaxFaults
              /\ \E n \in 0..(total - 1) : CleanupPass(n, TRUE)
    /\ UNCHANGED <<songVars, stop_event, send_midi_callback, remaining, wake,
                   timers, lag>>

\* ------------------------------------------------- _schedule_note_off
\* The first step of a note-off task, up to its await: wait_for with a
\* timeout <= 0 cancels the wait and raises TimeoutError; with the event
\* already set the wait returns at once.
TimerStart(t) ==
    /\ ~Busy
    /\ t \in timers /\ t.st = "new"
    /\ timers' = (timers \ {t}) \cup
          {IF t.duration <= 0 THEN [t EXCEPT !.st = "timeout"]
           ELSE IF stop_event THEN [t EXCEPT !.st = "signalled"]
           ELSE [t EXCEPT !.st = "wait", !.remaining = t.duration]}
    /\ UNCHANGED <<songVars, is_playing, stop_event, send_midi_callback, tasks,
                   runVars, sent, report, hist, faults, lag>>

\* The timeout of the timer's wait_for fires.
TimerTimeout(t) ==
    /\ ~Busy
    /\ t \in timers /\ t.st = "wait"
    /\ t.remaining = 0
    /\ timers' = (timers \ {t}) \cup {[t EXCEPT !.st = "timeout"]}
    /\ UNCHANGED <<songVars, is_playing, stop_event, send_midi_callback, tasks,
                   runVars, sent, report, hist, faults, lag>>

\* The condition under which _schedule_note_off sends its note_off
\* An `if` that looks at the stop event only
SendsUnlessStopped(t) == ~stop_event

TimerSends(t) == ~stop_event \/ t.duration <= 0

\* The timer resumes after its wait and finishes.
TimerResume(t) ==
    /\ ~Busy
    /\ t \in timers /\ t.st \in {"timeout", "signalled"}
    /\ timers' = timers \ {t}
    /\ \/ /\ TimerSends(t)
          /\ sent' = Append(sent, NoteOff(t.pitch, t.channel, "timer", t.run, t.ev, t.k))
          /\ UNCHANGED faults
       \/ /\ TimerSends(t)
          /\ faults < MaxFaults
          /\ faults' = faults + 1
          /\ UNCHANGED sent
       \/ /\ ~TimerSends(t)
          /\ UNCHANGED <<sent, faults>>
    /\ UNCHANGED <<songVars, is_playing, stop_event, send_midi_callback, tasks,
                   runVars, report, hist, lag>>

\* ------------------------------------------------------------- the clock
\* The first step of tasks[t] can be taken.
TaskCanStep(t) ==
    /\ tasks[t] = "pending"
    /\ is_playing \/ ~send_midi_callback \/ WithinLoad(Len(hist) + 1)

\* The event loop has a callback or a coroutine to run: a wait whose timeout
\* is due, a coroutine scheduled to resume, or a task that has not started.
Ready ==
    \/ pc = "wait" /\ (wake # "none" \/ remaining = 0)
    \/ \E t \in timers : t.st # "wait" \/ t.remaining = 0
    \/ \E t \in 1..Len(tasks) : TaskCanStep(t)

\* Some coroutine is waiting for a timeout.
Waiting ==
    \/ pc = "wait"
    \/ \E t \in timers : t.st = "wait"

\* One unit of time passes: every pending timeout comes one unit closer, and
\* a run in progress is one unit older.
Advance ==
    /\ remaining' = IF pc = "wait" THEN Max(0, remaining - 1) ELSE remaining
    /\ elapsed' = IF pc = "wait" THEN elapsed + 1 ELSE elapsed
    /\ timers' = {IF t.st = "wait" THEN [t EXCEPT !.remaining = Max(0, @ - 1)]
                 ELSE t : t \in timers}
    /\ UNCHANGED <<songVars, is_playing, stop_event, send_midi_callback, tasks,
                   pc, runner, idx, last_event_time, active_notes, walk, wake,
                   sent, report, hist, faults>>

\* Time passes while the event loop sleeps.
Tick ==
    /\ ~Busy /\ ~Ready /\ Waiting
    /\ Advance
    /\ UNCHANGED lag

\* Time passes between the timeout of play()'s wait and the moment play()
\* resumes: the event loop runs late, and so does the event's dispatch.
LateTick ==
    /\ pc = "wait" /\ wake = "timeout"
    /\ lag < MaxLag
    /\ lag' = lag + 1
    /\ Advance

\* What a step of the Song leaves alone
OutsidePlayer ==
    UNCHANGED <<managerVars, importVars, trackerVars, clientVars,
                serverVars,
                trackingVars, filePlayVars>>

\* What a step that is no call of play(), start_playback() or
\* stop_playback() leaves alone
OutsideCalls == OutsidePlayer /\ UNCHANGED stop_asked

Next ==
    \/ OutsideCalls /\ AddNote
    \/ OutsideCalls /\ AddChord
    \/ OutsideCalls /\ AddRest
    \/ OutsideCalls /\ AddProgramChange
    \/ OutsideCalls /\ AddControlChange
    \/ OutsideCalls /\ SetMidiCallback
    \/ OutsidePlayer /\ Play
    \/ OutsidePlayer /\ StartPlayback
    \/ OutsidePlayer /\ StopPlayback
    \/ OutsideCalls /\ (\E t \in 1..Len(tasks) : TaskStep(t))
    \/ OutsideCalls /\ LoopHead
    \/ OutsideCalls /\ WaitTimeout
    \/ OutsideCalls /\ PlayResume
    \/ OutsideCalls /\ Dispatch
    \/ OutsideCalls /\ Cleanup
    \/ OutsideCalls /\ (\E t \in timers : TimerStart(t))
    \/ OutsideCalls /\ (\E t \in timers : TimerTimeout(t))
    \/ OutsideCalls /\ (\E t \in timers : TimerResume(t))
    \/ OutsideCalls /\ Tick
    \/ OutsideCalls /\ LateTick

Spec == Init /\ [][Next]_vars

\* ============================================================ SongManager
MaxDelivered == 2   \* messages the Songs of the manager send

\* Song.start_playback on a Song of the manager: nothing when it is playing;
\* otherwise the task not yet done is cancelled and a new one created.
start_playback(song) ==
    IF song.is_playing THEN song ELSE [song EXCEPT !.task = "pending"]

\* Song.stop_playback on a Song of the manager
stop_playback(song) ==
    IF ~song.is_playing THEN song ELSE [song EXCEPT !.stop_event = TRUE]

\* A stop that requests the stop of every Song that is playing
StopsAll(h) ==
    [k \in Keys |-> stop_playback(h[k])]

\* SongManager.stop_current_song: what it does to the Songs, what it returns
StoppedCurrent(h) ==
    IF current_song = None THEN h
    ELSE [h EXCEPT ![current_song] = stop_playback(h[current_song])]

StopResult == current_song # None

stop_current_song ==
    /\ held' = StoppedCurrent(held)
    /\ returned' = [by |-> "stop_current_song", value |-> IF StopResult THEN "True" ELSE "False"]
    /\ UNCHANGED <<songs, current_song, manager_callback, delivered>>

\* SongManager.set_midi_callback
set_midi_callback ==
    /\ manager_callback' = TRUE
    /\ held' = [k \in Keys |->
                  IF k \in songs THEN [held[k] EXCEPT !.send_midi_callback = TRUE]
                  ELSE held[k]]
    /\ returned' = [by |-> "set_midi_callback", value |-> "None"]
    /\ UNCHANGED <<songs, current_song, delivered>>

\* An add_song that stores every Song under the name it comes with
NoSuffix(name) == 0

\* The suffix add_song gives a Song of this name: none (0) when the name is
\* free, else the first i >= 1 with name_i free.
FirstFree(name) ==
    IF <<name, 0>> \notin songs THEN 0
    ELSE CHOOSE i \in 1..(Cardinality(songs) + 1) :
            /\ <<name, i>> \notin songs
            /\ \A j \in 1..(i - 1) : <<name, j>> \in songs

\* SongManager.add_song of a new Song of the given name. The key is one of
\* Keys, and the Song stored under it before, if any, has no run left.
add_song(name) ==
    LET key == <<name, FirstFree(name)>>
    IN  /\ key \in Keys
        /\ ~held[key].is_playing /\ held[key].task = "none"
        /\ songs' = songs \cup {key}
        /\ held' = [held EXCEPT ![key] =
                      [NewSong EXCEPT !.send_midi_callback = manager_callback]]
        /\ returned' = [by |-> "add_song", value |-> "None"]
        /\ UNCHANGED <<current_song, manager_callback, delivered>>

\* A remove_song that deletes the entry and does not stop the Song
RemovesOnly(name) ==
    /\ IF name \in songs
       THEN /\ IF current_song # None /\ current_song = name
               THEN current_song' = None /\ UNCHANGED held
               ELSE UNCHANGED <<held, current_song>>
            /\ songs' = songs \ {name}
            /\ returned' = [by |-> "remove_song", value |-> "True"]
       ELSE /\ returned' = [by |-> "remove_song", value |-> "False"]
            /\ UNCHANGED <<songs, held, current_song>>
    /\ UNCHANGED <<manager_callback, delivered>>

\* SongManager.remove_song
remove_song(name) ==
    /\ IF name \in songs
       THEN /\ IF current_song # None /\ current_song = name
               THEN held' = StoppedCurrent(held) /\ current_song' = None
               ELSE UNCHANGED <<held, current_song>>
            /\ songs' = songs \ {name}
            /\ returned' = [by |-> "remove_song", value |-> "True"]
       ELSE /\ returned' = [by |-> "remove_song", value |-> "False"]
            /\ UNCHANGED <<songs, held, current_song>>
    /\ UNCHANGED <<manager_callback, delivered>>

\* SongManager.set_current_song
set_current_song(name) ==
    /\ IF name \in songs
       THEN /\ held' = IF current_song # None /\ held[current_song].is_playing
                       THEN StoppedCurrent(held) ELSE held
            /\ current_song' = name
            /\ returned' = [by |-> "set_current_song", value |-> "True"]
       ELSE /\ returned' = [by |-> "set_current_song", value |-> "False"]
            /\ UNCHANGED <<held, current_song>>
    /\ UNCHANGED <<songs, manager_callback, delivered>>

\* A play_song that looks for the name only
RefusesUnknown(name) == name \notin songs

\* The two ways play_song returns False: no send capability, unknown name
Refuses(name) == ~manager_callback \/ name \notin songs

\* SongManager.play_song
play_song(name) ==
    /\ IF Refuses(name)
       THEN /\ returned' = [by |-> "play_song", value |-> "False"]
            /\ UNCHANGED <<held, current_song>>
       ELSE LET h == IF /\ current_song # None /\ current_song # name
                        /\ held[current_song].is_playing
                     THEN StoppedCurrent(held) ELSE held
            IN  /\ current_song' = name
                /\ held' = [h EXCEPT ![name] = start_playback(h[name])]
                /\ returned' = [by |-> "play_song", value |-> "True"]
    /\ UNCHANGED <<songs, manager_callback, delivered>>

\* SongManager.play_current_song
play_current_song ==
    /\ IF current_song = None \/ ~manager_callback
       THEN /\ returned' = [by |-> "play_current_song", value |-> "False"]
            /\ UNCHANGED held
       ELSE /\ held' = [held EXCEPT ![current_song] = start_playback(held[current_song])]
            /\ returned' = [by |-> "play_current_song", value |-> "True"]
    /\ UNCHANGED <<songs, current_song, manager_callback, delivered>>

\* The first step of the task start_playback created for the Song stored
\* under k: play() returns at once when the Song is playing or has no send
\* capability, else the run begins.
HeldTaskStep(k) ==
    /\ held[k].task = "pending"
    /\ held' = [held EXCEPT ![k] =
                  IF held[k].is_playing \/ ~held[k].send_midi_callback
                  THEN [@ EXCEPT !.task = "none"]
                  ELSE [@ EXCEPT !.task = "running", !.is_playing = TRUE,
                                 !.stop_event = FALSE]]
    /\ UNCHANGED <<songs, current_song, manager_callback, returned, delivered>>

\* The run of the Song stored under k sends a message.
HeldRunSends(k) ==
    /\ held[k].task = "running"
    /\ delivered < MaxDelivered
    /\ delivered' = delivered + 1
    /\ UNCHANGED <<songs, current_song, manager_callback, held, returned>>

\* The run of the Song stored under k ends, its timeline exhausted or its
\* stop requested.
HeldRunEnds(k) ==
    /\ held[k].task = "running"
    /\ held' = [held EXCEPT ![k] = [@ EXCEPT !.task = "none", !.is_playing = FALSE]]
    /\ UNCHANGED <<songs, current_song, manager_callback, returned, delivered>>

\* What a step of the manager or of its Songs leaves alone
OutsideManager ==
    UNCHANGED <<playerVars, importVars, trackerVars, clientVars,
                serverVars,
                trackingVars, filePlayVars>>

NextManager ==
    \/ OutsideManager /\ set_midi_callback
    \/ OutsideManager /\ (\E name \in SongNames : add_song(name))
    \/ OutsideManager /\ (\E name \in Keys : remove_song(name))
    \/ OutsideManager /\ (\E name \in Keys : set_current_song(name))
    \/ OutsideManager /\ (\E name \in Keys : play_song(name))
    \/ OutsideManager /\ play_current_song
    \/ OutsideManager /\ stop_current_song
    \/ OutsideManager /\ (\E k \in Keys : HeldTaskStep(k))
    \/ OutsideManager /\ (\E k \in Keys : HeldRunSends(k))
    \/ OutsideManager /\ (\E k \in Keys : HeldRunEnds(k))

SpecManager == Init /\ [][NextManager]_vars

\* The event loop runs every task that is ready: each run goes on to its end,
\* where play() leaves the loop, does its cleanup pass and clears
\* _is_playing.
SpecManagerFair ==
    SpecManager /\ \A k \in Keys : WF_vars(OutsideManager /\ HeldRunEnds(k))

\* ===================================================== Song: the event log
MaxLog == 3         \* events appended to the Song since its last clear()

\* The arguments of the add_* calls: <<pitch, time, duration, velocity,
\* channel>>, <<notes, time, duration, velocity, channel>>, <<time,
\* duration>>, <<program, time, channel>>, <<control, value, time, channel>>
NoteArgs == {<<60, 0, 1, 64, 0>>, <<62, 0, 1, 100, 1>>, <<60, 2, 0, 64, 0>>,
             <<60, -1, -2, 64, 0>>}
ChordArgs == {<<(<<60, 64>>), 0, 2, 90, 1>>}
RestArgs == {<<0, -1>>, <<2, 2>>}
ProgramChangeArgs == {<<5, 3, 1>>}
ControlChangeArgs == {<<7, 100, 0, 1>>}

\* What an edit of the event log leaves alone
OutsideLog ==
    UNCHANGED <<is_playing, stop_event, send_midi_callback, tasks, runVars,
                timers, sent, report, hist, faults, lag, stop_asked,
                managerVars,
                importVars, trackerVars, clientVars, serverVars,
                trackingVars, filePlayVars>>

\* Song.add_note
add_note(a) ==
    Len(events) < MaxLog /\ add_event(Note(a[1], a[2], a[3], a[4], a[5]))

\* Song.add_chord
add_chord(a) ==
    Len(events) < MaxLog /\ add_event(Chord(a[1], a[2], a[3], a[4], a[5]))

\* Song.add_rest
add_rest(a) ==
    Len(events) < MaxLog /\ add_event(Rest(a[1], a[2]))

\* Song.add_program_change
add_program_change(a) ==
    Len(events) < MaxLog /\ add_event(ProgramChange(a[1], a[2], a[3]))

\* Song.add_control_change
add_control_change(a) ==
    Len(events) < MaxLog /\ add_event(ControlChange(a[1], a[2], a[3], a[4]))

\* Song.sort_events
sort_events ==
    /\ sorted_events' = Sorted(events)
    /\ is_sorted' = TRUE
    /\ UNCHANGED <<events, duration>>

\* A clear() that empties the log and keeps the duration
ClearKeepsDuration ==
    /\ events' = <<>>
    /\ sorted_events' = <<>>
    /\ is_sorted' = TRUE
    /\ UNCHANGED duration

\* Song.clear
song_clear ==
    /\ events' = <<>>
    /\ sorted_events' = <<>>
    /\ is_sorted' = TRUE
    /\ duration' = 0

\* Song.__init__: the default tempo, in beats per minute
DefaultTempo == 120

\* The Song at hand as an object: the model gives it the default name and
\* tempo, which no add_* operation changes
ThisSong ==
    [name |-> "Untitled", tempo |-> DefaultTempo, events |-> events,
     duration |-> duration]

\* An event dictionary with the fields common to all events only
BaseDict(e) ==
    [type |-> e.event_type, time |-> e.time, duration |-> e.duration,
     channel |-> e.channel]

\* Song.to_json, the dictionary of one event: the common fields, then the
\* fields of its kind (a rest has none)
event_dict(e) ==
    LET base == [type |-> e.event_type, time |-> e.time,
                 duration |-> e.duration, channel |-> e.channel]
    IN  CASE e.event_type = NOTE ->
                base @@ [pitch |-> e.pitch, velocity |-> e.velocity]
          [] e.event_type = CHORD ->
                base @@ [notes |-> e.notes, velocity |-> e.velocity]
          [] e.event_type = PROGRAM_CHANGE ->
                base @@ [program |-> e.program]
          [] e.event_type = CONTROL_CHANGE ->
                base @@ [control |-> e.control, value |-> e.value]
          [] OTHER -> base

\* Song.to_json: the record that json.dumps writes
to_json(song) ==
    [name |-> song.name, tempo |-> song.tempo, duration |-> song.duration,
     events |-> [i \in 1..Len(song.events) |-> event_dict(song.events[i])]]

\* dict.get(key, default)
Get(d, key, default) == IF key \in DOMAIN d THEN d[key] ELSE default

\* Song.from_json, the event that one dictionary is added as: the add_*
\* call of its type with the values read by get(); <<>> for a type that no
\* branch handles
event_from(d) ==
    LET type == Get(d, "type", "none")
        time == Get(d, "time", 0)
        dur == Get(d, "duration", 0)
        channel == Get(d, "channel", 0)
    IN  CASE type = NOTE ->
                <<Note(Get(d, "pitch", 60), time, dur, Get(d, "velocity", 64),
                       channel)>>
          [] type = CHORD ->
                <<Chord(Get(d, "notes", <<>>), time, dur,
                        Get(d, "velocity", 64), channel)>>
          [] type = REST -> <<Rest(time, dur)>>
          [] type = PROGRAM_CHANGE ->
                <<ProgramChange(Get(d, "program", 0), time, channel)>>
          [] type = CONTROL_CHANGE ->
                <<ControlChange(Get(d, "control", 0), Get(d, "value", 0), time,
                                channel)>>
          [] OTHER -> <<>>

RECURSIVE added(_, _)
\* Song.from_json, the loop: add_event of every dictionary's event, in
\* order, on the song built so far
added(song, ds) ==
    IF ds = <<>> THEN song
    ELSE LET es == event_from(Head(ds))
             next == IF es = <<>> THEN song
                     ELSE [song EXCEPT
                             !.events = Append(@, es[1]),
                             !.duration = potential_duration(@, es[1])]
         IN  added(next, Tail(ds))

\* Song.from_json: a new Song of the name and tempo read, with the events
\* added one by one; the "duration" entry of the record is not read
from_json(data) ==
    added([name |-> Get(data, "name", "Untitled"),
           tempo |-> Get(data, "tempo", DefaultTempo),
           events |-> <<>>, duration |-> 0],
          Get(data, "events", <<>>))

NextSong ==
    \/ OutsideLog /\ (\E a \in NoteArgs : add_note(a))
    \/ OutsideLog /\ (\E a \in ChordArgs : add_chord(a))
    \/ OutsideLog /\ (\E a \in RestArgs : add_rest(a))
    \/ OutsideLog /\ (\E a \in ProgramChangeArgs : add_program_change(a))
    \/ OutsideLog /\ (\E a \in ControlChangeArgs : add_control_change(a))
    \/ OutsideLog /\ sort_events
    \/ OutsideLog /\ song_clear

SpecSong == Init /\ [][NextSong]_vars

\* ================================== MidiFilePlayer.convert_to_song
\* Seconds are counted in microseconds. The files converted have tick deltas
\* that convert to whole microseconds.
MaxTracks == 2
MaxMessages == 3

\* tempo=500000, the reference tempo in microseconds per beat
ReferenceTempo == 500000
\* duration=0.1, the temporary duration of an imported note
TemporaryDuration == 100000
\* the 0.001 of the matching condition
MatchSlack == 1000

TicksPerBeat == {240, 480}

\* The messages of the files converted
Messages ==
    {[type |-> "note_on", time |-> t, note |-> 60, velocity |-> 64,
      channel |-> 0] : t \in {0, 48, 480}}
    \cup {[type |-> "note_on", time |-> t, note |-> 60, velocity |-> 0,
           channel |-> 0] : t \in {48, 480}}
    \cup {[type |-> "note_off", time |-> t, note |-> 60, velocity |-> 0,
           channel |-> 0] : t \in {0, 48, 480}}
    \cup {[type |-> "note_off", time |-> 48, note |-> 62, velocity |-> 0,
           channel |-> 0],
          [type |-> "note_off", time |-> 48, note |-> 60, velocity |-> 0,
           channel |-> 1],
          [type |-> "program_change", time |-> 48, program |-> 5,
           channel |-> 1],
          [type |-> "control_change", time |-> 0, control |-> 7,
           value |-> 100, channel |-> 0],
          [type |-> "set_tempo", time |-> 48, tempo |-> 1000000]}

\* mido.tick2second, in microseconds
tick2second(tick, tpb, tempo) == (tick * tempo) \div tpb

RECURSIVE DeclaredTempo(_)
\* The tempo of the last set_tempo message of a stream, the reference tempo
\* when it has none
DeclaredTempo(history) ==
    IF history = <<>> THEN ReferenceTempo
    ELSE LET last == history[Len(history)].msg
         IN  IF last.type = "set_tempo" THEN last.tempo
             ELSE DeclaredTempo(SubSeq(history, 1, Len(history) - 1))

\* The tempo argument of the tick2second call: the constant, whatever the
\* stream read so far holds
conversion_tempo(history) == ReferenceTempo

\* absolute_time after the update for msg
Advanced(msg) ==
    IF msg.time > 0
    THEN absolute_time
           + tick2second(msg.time, ticks_per_beat, conversion_tempo(read))
    ELSE absolute_time

\* The condition of the search for the note to close
Matches(event, msg, now) ==
    /\ "pitch" \in DOMAIN event
    /\ event.pitch = msg.note
    /\ event.channel = msg.channel
    /\ event.time + event.duration > now - MatchSlack

\* The last event of the log that satisfies the condition, 0 if none does
LastMatch(evs, msg, now) ==
    LET m == {i \in 1..Len(evs) : Matches(evs[i], msg, now)}
    IN  IF m = {} THEN 0 ELSE CHOOSE i \in m : \A j \in m : j <= i

\* for event in song.events: if ...: ...; break: the first event of the log
\* that satisfies the condition, 0 if none does
FirstMatch(evs, msg, now) ==
    LET m == {i \in 1..Len(evs) : Matches(evs[i], msg, now)}
    IN  IF m = {} THEN 0 ELSE CHOOSE i \in m : \A j \in m : i <= j

\* The names files are loaded under
FileNames == {"f"}

\* MidiFilePlayer.load_file of a file that mido reads: the entry of the name
\* is set, or replaced
load_file(name, tpb) ==
    /\ stage = "idle"
    /\ midi_files' = [n \in DOMAIN midi_files \cup {name} |->
                        IF n = name THEN tpb ELSE midi_files[n]]
    /\ UNCHANGED <<events, sorted_events, is_sorted, duration, stage,
                   ticks_per_beat, track_idx, absolute_time, read, converted>>

\* convert_to_song(name) with a name that is not loaded
ConvertUnknown(name) ==
    /\ stage = "idle"
    /\ name \notin DOMAIN midi_files
    /\ converted' = "None"
    /\ UNCHANGED <<events, sorted_events, is_sorted, duration, stage,
                   ticks_per_beat, track_idx, absolute_time, read, midi_files>>

\* convert_to_song(name) up to the loops: the file is looked up and a new
\* Song created
BeginConvert(name) ==
    /\ stage = "idle"
    /\ name \in DOMAIN midi_files
    /\ stage' = "converting"
    /\ ticks_per_beat' = midi_files[name]
    /\ UNCHANGED midi_files
    /\ events' = <<>>
    /\ sorted_events' = <<>>
    /\ is_sorted' = FALSE
    /\ duration' = 0
    /\ track_idx' = 0
    /\ absolute_time' = 0
    /\ read' = <<>>
    /\ converted' = "none"

\* The outer loop goes to the next track
NextTrack ==
    /\ stage = "converting"
    /\ track_idx < MaxTracks
    /\ track_idx' = track_idx + 1
    /\ absolute_time' = 0
    /\ UNCHANGED <<events, sorted_events, is_sorted, duration, stage,
                   ticks_per_beat, read, converted, midi_files>>

\* One turn of the inner loop, for the message msg
ReadMessage(msg) ==
    LET now == Advanced(msg)
    IN  /\ stage = "converting"
        /\ track_idx >= 1
        /\ Len(read) < MaxMessages
        /\ absolute_time' = now
        /\ read' = Append(read, [track |-> track_idx, msg |-> msg])
        /\ UNCHANGED <<stage, ticks_per_beat, track_idx, converted,
                       midi_files>>
        /\ CASE msg.type = "note_on" /\ msg.velocity > 0 ->
                  add_event(Note(msg.note, now, TemporaryDuration,
                                 msg.velocity, msg.channel))
             [] \/ msg.type = "note_off"
                \/ msg.type = "note_on" /\ msg.velocity = 0 ->
                  LET i == FirstMatch(events, msg, now)
                  IN  /\ events' = IF i = 0 THEN events
                                   ELSE [events EXCEPT
                                           ![i].duration = now - events[i].time]
                      /\ UNCHANGED <<sorted_events, is_sorted, duration>>
             [] msg.type = "program_change" ->
                  add_event(ProgramChange(msg.program, now, msg.channel))
             [] msg.type = "control_change" ->
                  add_event(ControlChange(msg.control, msg.value, now,
                                          msg.channel))
             [] OTHER ->
                  UNCHANGED <<events, sorted_events, is_sorted, duration>>

\* The end of the first event of the log
FirstEnd(evs) == evs[1].time + evs[1].duration

\* max([event.time + event.duration for event in song.events ...]): every
\* event has a duration attribute
LatestEnd(evs) ==
    LET ends == {evs[i].time + evs[i].duration : i \in 1..Len(evs)}
    IN  CHOOSE x \in ends : \A y \in ends : y <= x

\* The loops are over: the duration is recomputed and the events sorted.
\* max() of an empty list raises, and the handler returns None.
FinishConvert ==
    /\ stage = "converting"
    /\ stage' = "done"
    /\ IF events = <<>>
       THEN /\ converted' = "None"
            /\ UNCHANGED <<events, sorted_events, is_sorted, duration>>
       ELSE /\ converted' = "Song"
            /\ duration' = LatestEnd(events)
            /\ sorted_events' = Sorted(events)
            /\ is_sorted' = TRUE
            /\ UNCHANGED events
    /\ UNCHANGED <<ticks_per_beat, track_idx, absolute_time, read,
                   midi_files>>

OutsideImport ==
    UNCHANGED <<is_playing, stop_event, send_midi_callback, tasks, runVars,
                timers, sent, report, hist, faults, lag, stop_asked,
                managerVars,
                trackerVars, clientVars, serverVars,
                trackingVars, filePlayVars>>

NextImport ==
    \/ OutsideImport /\ (\E name \in FileNames, tpb \in TicksPerBeat :
                            load_file(name, tpb))
    \/ OutsideImport /\ (\E name \in FileNames : ConvertUnknown(name))
    \/ OutsideImport /\ (\E name \in FileNames : BeginConvert(name))
    \/ OutsideImport /\ NextTrack
    \/ OutsideImport /\ (\E msg \in Messages : ReadMessage(msg))
    \/ OutsideImport /\ FinishConvert

SpecImport == Init /\ [][NextImport]_vars

\* ================================================ Song: edits and runs
\* The event log is edited while the Song is played: an add_*, a
\* sort_events() or a clear() is called by another callback of the event
\* loop, at a moment when play() is not running between two of its awaits.
\* The events the log holds at most while it is edited around a run
MaxEdited == 3

\* The notes and rests added while the Song is played
EditNoteArgs == {<<60, 2, 0, 64, 0>>}
EditRestArgs == {<<2, 2>>}

\* The log has room for one more event
Room == Len(events) < MaxEdited

\* The send capability does not raise
NoFault == UNCHANGED faults

\* Chords, rests, program changes and control changes are added while the
\* Song is composed; notes are added, and the log is sorted and cleared, at
\* any time.
NextEdits ==
    \/ OutsideLog /\ ~Busy /\ Room /\ (\E a \in EditNoteArgs : add_note(a))
    \/ OutsideLog /\ Composing /\ Room /\ (\E a \in ChordArgs : add_chord(a))
    \/ OutsideLog /\ Composing /\ Room /\ (\E a \in EditRestArgs : add_rest(a))
    \/ OutsideLog /\ Composing /\ Room
         /\ (\E a \in ProgramChangeArgs : add_program_change(a))
    \/ OutsideLog /\ Composing /\ Room
         /\ (\E a \in ControlChangeArgs : add_control_change(a))
    \/ OutsideLog /\ ~Busy /\ sort_events
    \/ OutsideLog /\ ~Busy /\ song_clear
    \/ OutsideCalls /\ SetMidiCallback
    \/ OutsidePlayer /\ hist = <<>> /\ Play
    \/ OutsideCalls /\ LoopHead
    \/ OutsideCalls /\ WaitTimeout
    \/ OutsideCalls /\ PlayResume
    \/ OutsideCalls /\ NoFault /\ Dispatch
    \/ OutsideCalls /\ NoFault /\ Cleanup
    \/ OutsideCalls /\ NoFault /\ (\E t \in timers : TimerStart(t))
    \/ OutsideCalls /\ NoFault /\ (\E t \in timers : TimerTimeout(t))
    \/ OutsideCalls /\ NoFault /\ (\E t \in timers : TimerResume(t))
    \/ OutsideCalls /\ Tick

SpecEdits == Init /\ [][NextEdits]_vars

\* ===================================================== tracker_parser
\* A document is a sequence of lines. A line is kept as what the parser
\* looks at: whether it starts with a bar, its header key and value, whether
\* it starts with "|---", the "Row" text in it, and its cells between the
\* bars. A cell is the sequence of its blank-separated parts. A numeric text
\* is <<n>> when int() reads it as n and <<>> when int() raises ValueError;
\* None is <<>> and a value v that may be None is <<v>>. Times are in
\* microseconds; the tempos and speeds used divide without remainder.
MaxHeader == 2
MaxRows == 2

\* tempo = 120 and speed = 4, the defaults of parse_tracker_content
TrackerTempo == 120
TrackerSpeed == 4
\* the volume stored for a cell whose volume is None
DefaultVolume == 64
\* the velocity of a note whose volume is None
NoVolumeVelocity == 64
\* the highest velocity
TopVelocity == 127
\* 60 seconds, in microseconds
Minute == 60000000

HeaderLine(key, value, digits) ==
    [bar |-> FALSE, key |-> key, value |-> value, digits |-> digits,
     dashes |-> FALSE, mark |-> <<>>, cells |-> <<>>]

GridLine(dashes, mark, cells) ==
    [bar |-> TRUE, key |-> "", value |-> <<>>, digits |-> <<>>,
     dashes |-> dashes, mark |-> mark, cells |-> cells]

\* Parts of cells: a note text the pattern matches, with the name and the
\* octave it captures; a number text; a placeholder; any other text
NotePart(name, octave) ==
    [t |-> "note", name |-> name, octave |-> octave, value |-> <<>>]
NumberPart(n) == [t |-> "number", name |-> "", octave |-> 0, value |-> <<n>>]
Placeholder == [t |-> "placeholder", name |-> "", octave |-> 0, value |-> <<>>]
Other == [t |-> "other", name |-> "", octave |-> 0, value |-> <<>>]
\* the cell '.....'
Dots == [t |-> "dots", name |-> "", octave |-> 0, value |-> <<>>]

\* TEMPO: 100, TEMPO: fast, TEMPO: 0, SPEED: 2, SPEED: slow,
\* INSTRUMENT1: Bass 33
HeaderLines ==
    {HeaderLine("TEMPO", <<100>>, <<>>), HeaderLine("TEMPO", <<>>, <<>>),
     HeaderLine("TEMPO", <<0>>, <<>>), HeaderLine("SPEED", <<2>>, <<>>),
     HeaderLine("SPEED", <<>>, <<>>),
     HeaderLine("INSTRUMENT", <<1>>, <<33>>)}

\* | CH1 | CH2 |    and    | CH1 |
ChannelHeaders ==
    {GridLine(FALSE, <<>>, <<(<<Other>>), (<<Other>>)>>),
     GridLine(FALSE, <<>>, <<(<<Other>>)>>)}

\* |------|------|
\* | Row 4 |  |
\* | C-4 00 64 | ... |
\* | D#5 01 20 | E-4 00 |
\* | ..... | C-4 00 .. |
\* | Cb4 00 64 | E-4 00 64 | G-2 01 64 |
GridLines ==
    {GridLine(TRUE, <<>>, <<(<<Other>>), (<<Other>>)>>),
     GridLine(FALSE, <<"Row", 4>>, <<(<<Other, Other>>), (<<>>)>>),
     GridLine(FALSE, <<>>,
              <<(<<NotePart("C", 4), NumberPart(0), NumberPart(64)>>),
                (<<Placeholder>>)>>),
     GridLine(FALSE, <<>>,
              <<(<<NotePart("D#", 5), NumberPart(1), NumberPart(20)>>),
                (<<NotePart("E", 4), NumberPart(0)>>)>>),
     GridLine(FALSE, <<>>,
              <<(<<Dots>>),
                (<<NotePart("C", 4), NumberPart(0), Placeholder>>)>>),
     GridLine(FALSE, <<>>,
              <<(<<NotePart("Cb", 4), NumberPart(0), NumberPart(64)>>),
                (<<NotePart("E", 4), NumberPart(0), NumberPart(64)>>),
                (<<NotePart("G", 2), NumberPart(1), NumberPart(64)>>)>>)}

\* note_values
note_values ==
    [n \in {"C", "C#", "Db", "D", "D#", "Eb", "E", "F", "F#", "Gb", "G", "G#",
            "Ab", "A", "A#", "Bb", "B"} |->
        CASE n = "C" -> 0 [] n \in {"C#", "Db"} -> 1 [] n = "D" -> 2
          [] n \in {"D#", "Eb"} -> 3 [] n = "E" -> 4 [] n = "F" -> 5
          [] n \in {"F#", "Gb"} -> 6 [] n = "G" -> 7 [] n \in {"G#", "Ab"} -> 8
          [] n = "A" -> 9 [] n \in {"A#", "Bb"} -> 10 [] OTHER -> 11]

\* A pitch that counts the octaves from 0
PitchFromOctaveZero(name, octave) == octave * 12 + note_values[name]

\* (int(octave) + 1) * 12 + note_values[note_name]
midi_pitch(name, octave) == (octave + 1) * 12 + note_values[name]

\* int(parts[k]) under try/except, for a part that is there and is no
\* placeholder; None otherwise
OptionalInt(parts, k) ==
    IF Len(parts) >= k /\ parts[k].t # "placeholder" THEN parts[k].value
    ELSE <<>>

\* parse_note: <<midi_note, instrument, volume>>
parse_note(parts) ==
    IF parts = <<>> \/ parts = <<Dots>> \/ parts = <<Placeholder>>
    THEN <<(<<>>), (<<>>), (<<>>)>>
    ELSE <<IF parts[1].t = "note" /\ parts[1].name \in DOMAIN note_values
           THEN <<midi_pitch(parts[1].name, parts[1].octave)>>
           ELSE <<>>,
           OptionalInt(parts, 2), OptionalInt(parts, 3)>>

\* The number of lines before the first one that starts with a bar
RECURSIVE HeaderLength(_)
HeaderLength(lines) ==
    IF lines = <<>> \/ Head(lines).bar THEN 0
    ELSE 1 + HeaderLength(Tail(lines))

\* instruments[instr_num] = instr_name, on a dict kept as the sequence of
\* its items
SetItem(items, key, value) ==
    IF \E i \in 1..Len(items) : items[i][1] = key
    THEN [i \in 1..Len(items) |->
            IF items[i][1] = key THEN <<key, value>> ELSE items[i]]
    ELSE Append(items, <<key, value>>)

\* A header loop in which a TEMPO or SPEED line that int() cannot read puts
\* the default back
RECURSIVE ResettingHeader(_, _)
ResettingHeader(lines, k) ==
    IF k = 0
    THEN [tempo |-> TrackerTempo, speed |-> TrackerSpeed,
          instruments |-> <<>>]
    ELSE LET h == ResettingHeader(lines, k - 1)
             line == lines[k]
         IN  CASE line.key = "TEMPO" ->
                    [h EXCEPT !.tempo = IF line.value # <<>>
                                        THEN line.value[1] ELSE TrackerTempo]
               [] line.key = "SPEED" ->
                    [h EXCEPT !.speed = IF line.value # <<>>
                                        THEN line.value[1] ELSE TrackerSpeed]
               [] line.key = "INSTRUMENT" /\ line.value # <<>> ->
                    [h EXCEPT !.instruments =
                                 SetItem(@, line.value[1], line.digits)]
               [] OTHER -> h

\* parse_tracker_content, the header loop: tempo, speed and instruments
\* after the first k lines
RECURSIVE ParsedHeader(_, _)
ParsedHeader(lines, k) ==
    IF k = 0
    THEN [tempo |-> TrackerTempo, speed |-> TrackerSpeed,
          instruments |-> <<>>]
    ELSE LET h == ParsedHeader(lines, k - 1)
             line == lines[k]
         IN  CASE line.key = "TEMPO" /\ line.value # <<>> ->
                    [h EXCEPT !.tempo = line.value[1]]
               [] line.key = "SPEED" /\ line.value # <<>> ->
                    [h EXCEPT !.speed = line.value[1]]
               [] line.key = "INSTRUMENT" /\ line.value # <<>> ->
                    [h EXCEPT !.instruments =
                                 SetItem(@, line.value[1], line.digits)]
               [] OTHER -> h

\* The dict appended to notes: "volume": volume if volume is not None
\* else 64
NoteDict(row, channel, parsed) ==
    [row |-> row, channel |-> channel, note |-> parsed[1][1],
     instrument |-> parsed[2],
     volume |-> IF parsed[3] # <<>> THEN parsed[3] ELSE <<DefaultVolume>>]

\* parse_tracker_content, the loop over the cells of a row, from cell k on
RECURSIVE RowNotes(_, _, _, _)
RowNotes(cells, k, row, num_channels) ==
    IF k > Len(cells) THEN <<>>
    ELSE LET cell == cells[k]
             parsed == parse_note(cell)
             here == IF /\ k - 1 < num_channels
                        /\ cell # <<>>
                        /\ cell # <<Dots>>
                        /\ parsed[1] # <<>>
                     THEN <<NoteDict(row, k - 1, parsed)>>
                     ELSE <<>>
         IN  here \o RowNotes(cells, k + 1, row, num_channels)

\* A row counter that goes on only after a row that held a note
RowAfterNotes(current_row, notes) ==
    IF notes = <<>> THEN current_row ELSE current_row + 1

\* current_row += 1, at the end of each row of cells, whatever notes the
\* row gave
RowAfter(current_row, notes) == current_row + 1

\* parse_tracker_content, the loop over the rows, from line i on
RECURSIVE GridNotes(_, _, _, _)
GridNotes(lines, i, current_row, num_channels) ==
    IF i > Len(lines) \/ ~lines[i].bar THEN <<>>
    ELSE IF Len(lines[i].cells) > 0 /\ lines[i].mark # <<>>
    THEN GridNotes(lines, i + 1,
                   IF Len(lines[i].mark) = 2 THEN lines[i].mark[2]
                   ELSE current_row,
                   num_channels)
    ELSE LET notes == RowNotes(lines[i].cells, 1, current_row, num_channels)
         IN  notes \o GridNotes(lines, i + 1, RowAfter(current_row, notes),
                                num_channels)

\* parse_tracker_content
parse_tracker_content(lines) ==
    LET n == HeaderLength(lines)
        h == ParsedHeader(lines, n)
        first == IF n + 2 <= Len(lines) /\ lines[n + 2].dashes THEN n + 3
                 ELSE n + 2
    IN  [tempo |-> h.tempo, speed |-> h.speed,
         instruments |-> h.instruments,
         notes |-> IF n >= Len(lines) THEN <<>>
                   ELSE GridNotes(lines, first, 0, Len(lines[n + 1].cells))]

\* sorted(notes, key=lambda n: (n["row"], n["channel"]))
RECURSIVE SortedByRow(_)
SortedByRow(notes) ==
    IF notes = <<>> THEN <<>>
    ELSE LET rest == SortedByRow(SubSeq(notes, 1, Len(notes) - 1))
             last == notes[Len(notes)]
             k == Cardinality({i \in 1..Len(rest) :
                     \/ rest[i].row < last.row
                     \/ rest[i].row = last.row
                        /\ rest[i].channel <= last.channel})
         IN  SubSeq(rest, 1, k) \o <<last>> \o SubSeq(rest, k + 1, Len(rest))

\* tracker_to_midi_commands, the program change of an item of instruments:
\* the number in the name when it has one, the key otherwise
ProgramCommand(item) ==
    [command |-> "program_change",
     program |-> IF item[2] # <<>> THEN item[2][1] ELSE item[1],
     time |-> 0, channel |-> item[1]]

\* tracker_to_midi_commands, the command of a note
NoteCommand(note, seconds_per_row) ==
    [command |-> "note", pitch |-> note.note,
     time |-> note.row * seconds_per_row, duration |-> seconds_per_row,
     velocity |-> IF note.volume # <<>>
                  THEN (IF note.volume[1] * 2 < TopVelocity
                        THEN note.volume[1] * 2 ELSE TopVelocity)
                  ELSE NoVolumeVelocity,
     channel |-> note.channel]

\* 60 / tempo and the division by speed raise ZeroDivisionError
DivisionByZero(data) == data.tempo = 0 \/ data.speed = 0

\* tracker_to_midi_commands, when no division is by zero
tracker_to_midi_commands(data) ==
    LET seconds_per_row == (Minute \div data.tempo) \div data.speed
        notes == SortedByRow(data.notes)
    IN  [i \in 1..Len(data.instruments) |->
            ProgramCommand(data.instruments[i])]
        \o [i \in 1..Len(notes) |-> NoteCommand(notes[i], seconds_per_row)]

\* A line is added to the header of the document
WriteHeaderLine(line) ==
    /\ compiled = "none" /\ created.status = "none"
    /\ Len(content) < MaxHeader
    /\ HeaderLength(content) = Len(content)
    /\ content' = Append(content, line)
    /\ UNCHANGED <<midi_commands, compiled, created>>

\* The line of the channel names is added to the document
WriteChannelHeader(line) ==
    /\ compiled = "none" /\ created.status = "none"
    /\ HeaderLength(content) = Len(content)
    /\ content' = Append(content, line)
    /\ UNCHANGED <<midi_commands, compiled, created>>

\* A line is added to the grid of the document
WriteGridLine(line) ==
    /\ compiled = "none" /\ created.status = "none"
    /\ HeaderLength(content) < Len(content)
    /\ Len(content) - HeaderLength(content) - 1 < MaxRows
    /\ content' = Append(content, line)
    /\ UNCHANGED <<midi_commands, compiled, created>>

\* tracker_to_midi_commands(parse_tracker_content(content))
Compile ==
    LET data == parse_tracker_content(content)
    IN  /\ compiled = "none"
        /\ IF DivisionByZero(data)
           THEN /\ compiled' = "raised"
                /\ UNCHANGED midi_commands
           ELSE /\ compiled' = "returned"
                /\ midi_commands' = tracker_to_midi_commands(data)
        /\ UNCHANGED <<content, created>>

\* The methods of SongManager
SongManagerMethods ==
    {"__init__", "set_midi_callback", "add_song", "remove_song", "get_song",
     "get_all_songs", "set_current_song", "play_song", "play_current_song",
     "stop_current_song", "save_song", "load_song", "save_all_songs",
     "load_all_songs", "create_simple_song", "create_scale_song",
     "create_chord_progression_song"}

\* create_midi_song(song_manager, name, content): the document is parsed,
\* then song_manager.create_song is looked up; SongManager has no such
\* method, the AttributeError is caught and the error status returned
create_midi_song(name) ==
    /\ created.status = "none"
    /\ "create_song" \notin SongManagerMethods
    /\ created' = [status |-> "error", name |-> name]
    /\ UNCHANGED <<content, midi_commands, compiled, managerVars>>

OutsideTracker ==
    UNCHANGED <<playerVars, importVars, clientVars, serverVars,
                trackingVars, filePlayVars>>

NextTracker ==
    \/ OutsideTracker /\ UNCHANGED managerVars
         /\ (\E line \in HeaderLines : WriteHeaderLine(line))
    \/ OutsideTracker /\ UNCHANGED managerVars
         /\ (\E line \in ChannelHeaders : WriteChannelHeader(line))
    \/ OutsideTracker /\ UNCHANGED managerVars
         /\ (\E line \in GridLines : WriteGridLine(line))
    \/ OutsideTracker /\ UNCHANGED managerVars /\ Compile
    \/ OutsideTracker /\ (\E name \in SongNames : create_midi_song(name))

SpecTracker == Init /\ [][NextTracker]_vars

\* ======================================================= claude_client
\* The most ```midi blocks a text holds, and the most requests a client
\* is followed for
MaxBlocks == 2
MaxRequests == 3

\* What json.loads makes of the body of a ```midi block: "invalid" when it
\* raises JSONDecodeError, else the kind of value it returns, with the
\* members when that is an object.
Body(json, value) == [json |-> json, value |-> value]

Bodies ==
    { Body("invalid", <<>>),
      Body("array", <<>>),
      Body("object", [type |-> "note_on", note |-> 60, velocity |-> 100,
                      channel |-> 0]),
      Body("object", [type |-> "note_off", note |-> 60]),
      Body("object", [type |-> "discover"]),
      Body("object", [type |-> "pitch_bend", value |-> 0]) }

Texts == UNION {[1..n -> Bodies] : n \in 0..MaxBlocks}

\* dict.get(key) of a key that is absent
null == "null"

\* ClaudeClient.extract_midi_commands: every block json.loads accepts, in
\* order, whatever the value is
extract_midi_commands(blocks) ==
    SelectSeq(blocks, LAMBDA b : b.json # "invalid")

\* The velocity a note_on without one is sent with, and a note_off
NoteOnVelocity == 64
NoteOffVelocity == 0

\* The member "method" of the request process_claude_response sends for a
\* command of each type it knows
MethodOf ==
    [note_on |-> "midi.note_on", note_off |-> "midi.note_off",
     program_change |-> "midi.program_change",
     control_change |-> "midi.control_change",
     discover |-> "midi.discover", connect |-> "midi.connect"]

\* The member "params" of that request
ParamsOf(cmd) ==
    CASE cmd.type = "note_on" ->
           [note |-> Get(cmd, "note", null),
            velocity |-> Get(cmd, "velocity", NoteOnVelocity),
            channel |-> Get(cmd, "channel", 0),
            port_id |-> Get(cmd, "port_id", 0)]
      [] cmd.type = "note_off" ->
           [note |-> Get(cmd, "note", null),
            velocity |-> Get(cmd, "velocity", NoteOffVelocity),
            channel |-> Get(cmd, "channel", 0),
            port_id |-> Get(cmd, "port_id", 0)]
      [] cmd.type = "program_change" ->
           [program |-> Get(cmd, "program", null),
            channel |-> Get(cmd, "channel", 0),
            port_id |-> Get(cmd, "port_id", 0)]
      [] cmd.type = "control_change" ->
           [control |-> Get(cmd, "control", null),
            value |-> Get(cmd, "value", null),
            channel |-> Get(cmd, "channel", 0),
            port_id |-> Get(cmd, "port_id", 0)]
      [] cmd.type = "discover" -> <<>>
      [] cmd.type = "connect" -> [port_id |-> Get(cmd, "port_id", 0)]

\* The id of the n-th request: f"claude-{n}"
RequestId(n) == <<"claude-", n>>

\* ClaudeClient.send_mcp_request: the payload of the n-th request
Payload(n, method, params) ==
    [jsonrpc |-> "2.0", id |-> RequestId(n), method |-> method,
     params |-> params]

\* The commands process_claude_response's loop gets through: cmd.get
\* raises AttributeError at the first command that is not an object, and
\* the loop ends there.
RECURSIVE Reached(_)
Reached(commands) ==
    IF commands = <<>> \/ Head(commands).json # "object"
    THEN <<>>
    ELSE <<Head(commands).value>> \o Reached(Tail(commands))

\* cmd.get("type", "") is one of the types the loop has a branch for
Known(cmd) == Get(cmd, "type", "") \in DOMAIN MethodOf

\* ClaudeClient.process_claude_response
process_claude_response(t) ==
    LET commands == extract_midi_commands(t)
        reached == Reached(commands)
        known == SelectSeq(reached, Known)
    IN  /\ request_id + Len(t) <= MaxRequests
        /\ text' = t
        /\ posted' = posted \o
                       [i \in 1..Len(known) |->
                          Payload(request_id + i, MethodOf[known[i].type],
                                  ParamsOf(known[i]))]
        /\ request_id' = request_id + Len(known)
        /\ processed' = IF Len(reached) < Len(commands)
                        THEN "AttributeError" ELSE "returned"

OutsideClient ==
    UNCHANGED <<playerVars, managerVars, importVars, trackerVars,
                serverVars,
                trackingVars, filePlayVars>>

NextClient ==
    \/ OutsideClient /\ (\E t \in Texts : process_claude_response(t))

SpecClient == Init /\ [][NextClient]_vars

\* ============================================================== server
\* The bodies of note requests: MidiNoteOn and MidiNoteOff, and the
\* "params" of midi.note_on
NoteData ==
    { [note |-> 60, velocity |-> 100, channel |-> 0],
      [note |-> 62] }

\* MidiNoteOn.velocity and MidiNoteOff.velocity when the body has none
MidiNoteOnVelocity == 64
MidiNoteOffVelocity == 0

\* mido.Message(type, note=..., velocity=..., channel=...)
Message(type, d, velocity) ==
    [type |-> type, note |-> d.note,
     velocity |-> Get(d, "velocity", velocity),
     channel |-> Get(d, "channel", 0)]

\* rtmidi.MidiOut().get_ports(), as the keys discover_midi_ports gives them
available_ports == 0..(devices - 1)

\* A port is plugged in
Attach ==
    /\ devices < MaxDevices
    /\ devices' = devices + 1
    /\ UNCHANGED <<midi_ports, active_ports, opened, port_sent, registered,
                   response, serving>>

\* connect_to_port never finds a port open
NeverActive(port_id) == FALSE

\* connect_to_port: port_id in active_ports
IsActive(port_id) == port_id \in active_ports

\* midi_ports as connect_to_port(port_id) leaves it: discover_midi_ports
\* runs when the port is neither open nor known
KnownAfter(port_id) ==
    IF IsActive(port_id) \/ port_id \in midi_ports
    THEN midi_ports
    ELSE available_ports

\* connect_to_port(port_id) raises ValueError
NotFound(port_id) ==
    ~IsActive(port_id) /\ port_id \notin KnownAfter(port_id)

\* connect_to_port(port_id), whether it returns or raises
connect_to_port(port_id) ==
    /\ midi_ports' = KnownAfter(port_id)
    /\ IF IsActive(port_id) \/ NotFound(port_id)
       THEN UNCHANGED <<active_ports, opened>>
       ELSE /\ active_ports' = active_ports \cup {port_id}
            /\ opened' = [opened EXCEPT ![port_id] = @ + 1]

\* GET /midi/ports
get_midi_ports ==
    /\ serving
    /\ midi_ports' = available_ports
    /\ response' = "200"
    /\ UNCHANGED <<devices, active_ports, opened, port_sent, registered,
                   serving>>

\* POST /midi/connect/{port_id}
connect_midi_port(port_id) ==
    /\ serving
    /\ connect_to_port(port_id)
    /\ response' = IF NotFound(port_id) THEN "400" ELSE "200"
    /\ UNCHANGED <<devices, port_sent, registered, serving>>

\* POST /midi/note_on
send_note_on(note_data, port_id) ==
    /\ serving
    /\ Len(port_sent) < MaxSent
    /\ connect_to_port(port_id)
    /\ IF NotFound(port_id)
       THEN /\ response' = "400"
            /\ UNCHANGED <<port_sent, registered>>
       ELSE LET msg == Message("note_on", note_data, MidiNoteOnVelocity)
            IN  /\ port_sent' = Append(port_sent,
                                       [port |-> port_id, msg |-> msg])
                /\ registered' = registered \cup {<<msg.channel, msg.note>>}
                /\ response' = "200"
    /\ UNCHANGED <<devices, serving>>

\* POST /midi/note_off
send_note_off(note_data, port_id) ==
    /\ serving
    /\ Len(port_sent) < MaxSent
    /\ connect_to_port(port_id)
    /\ IF NotFound(port_id)
       THEN /\ response' = "400"
            /\ UNCHANGED <<port_sent, registered>>
       ELSE LET msg == Message("note_off", note_data, MidiNoteOffVelocity)
            IN  /\ port_sent' = Append(port_sent,
                                       [port |-> port_id, msg |-> msg])
                /\ registered' = registered \ {<<msg.channel, msg.note>>}
                /\ response' = "200"
    /\ UNCHANGED <<devices, serving>>

\* The requests POST /mcp is sent: a note_on with and without a port_id, a
\* connect, a discover, and a method the server does not have
MCPRequest(method, params) == [method |-> method, params |-> params]

MCPRequests ==
    {MCPRequest("midi.note_on", d) : d \in NoteData}
      \cup {MCPRequest("midi.note_on", d @@ [port_id |-> p]) :
               d \in NoteData, p \in PortIds}
      \cup {MCPRequest("midi.connect", [port_id |-> p]) : p \in PortIds}
      \cup {MCPRequest("midi.discover", <<>>),
            MCPRequest("midi.reset", <<>>)}

\* POST /mcp
mcp_endpoint(mcp_request) ==
    LET port_id == Get(mcp_request.params, "port_id", 0)
    IN  /\ serving
        /\ CASE mcp_request.method = "midi.discover" ->
                   /\ midi_ports' = available_ports
                   /\ response' = "result"
                   /\ UNCHANGED <<active_ports, opened, port_sent>>
              [] mcp_request.method = "midi.connect" ->
                   /\ connect_to_port(port_id)
                   /\ response' = IF NotFound(port_id)
                                  THEN "error -32603" ELSE "result"
                   /\ UNCHANGED port_sent
              [] mcp_request.method = "midi.note_on" ->
                   /\ Len(port_sent) < MaxSent
                   /\ connect_to_port(port_id)
                   /\ IF NotFound(port_id)
                      THEN /\ response' = "error -32603"
                           /\ UNCHANGED port_sent
                      ELSE /\ port_sent' =
                                Append(port_sent,
                                       [port |-> port_id,
                                        msg |-> Message("note_on",
                                                        mcp_request.params,
                                                        MidiNoteOnVelocity)])
                           /\ response' = "result"
              [] OTHER ->
                   /\ response' = "error -32601"
                   /\ UNCHANGED <<midi_ports, active_ports, opened,
                                  port_sent>>
        /\ UNCHANGED <<devices, registered, serving>>

\* The shutdown handler: close_all_connections
shutdown_event ==
    /\ serving
    /\ serving' = FALSE
    /\ active_ports' = {}
    /\ UNCHANGED <<devices, midi_ports, opened, port_sent, registered,
                   response>>

OutsideServer ==
    UNCHANGED <<playerVars, managerVars, importVars, trackerVars,
                clientVars, trackingVars, filePlayVars>>

NextServer ==
    \/ OutsideServer /\ Attach
    \/ OutsideServer /\ get_midi_ports
    \/ OutsideServer /\ (\E p \in PortIds : connect_midi_port(p))
    \/ OutsideServer /\ (\E d \in NoteData, p \in PortIds :
                            send_note_on(d, p))
    \/ OutsideServer /\ (\E d \in NoteData, p \in PortIds :
                            send_note_off(d, p))
    \/ OutsideServer /\ (\E r \in MCPRequests : mcp_endpoint(r))
    \/ OutsideServer /\ shutdown_event

SpecServer == Init /\ [][NextServer]_vars

\* ======================================================= all_notes_off
\* The channels the module keeps a list for
TrackedChannels == 0..MaxChannel

\* The notes registered and unregistered
TrackedNotes == {60, 62}

\* The control number of All Notes Off
AllNotesOffControl == 123

\* The elements of a list
Elements(list) == {list[i] : i \in 1..Len(list)}

\* A registration that appends the note whether it is in the list or not
AppendedAgain(notes, note) == Append(notes, note)

\* `if note not in active_notes[channel]: active_notes[channel].append(note)`
Registered(notes, note) ==
    IF note \in Elements(notes) THEN notes ELSE Append(notes, note)

\* list.remove(note): the list without the first note equal to it
Removed(notes, note) ==
    LET at == {i \in 1..Len(notes) : notes[i] = note}
        first == CHOOSE i \in at : \A j \in at : i <= j
    IN  SubSeq(notes, 1, first - 1) \o SubSeq(notes, first + 1, Len(notes))

\* register_note_on
register_note_on(note, channel) ==
    /\ tracked' = [tracked EXCEPT ![channel] = Registered(@, note)]
    /\ emitted' = <<>>

\* register_note_off
register_note_off(note, channel) ==
    /\ tracked' = [tracked EXCEPT ![channel] =
                      IF note \in Elements(@) THEN Removed(@, note) ELSE @]
    /\ emitted' = <<>>

\* What a sink is given: midi_port.send(msg) or send_midi_callback(type,
\* params)
NoteOffTo(sink, note, channel) ==
    [to |-> sink, type |-> "note_off", note |-> note, velocity |-> 0,
     channel |-> channel]
ControlChangeTo(sink, channel) ==
    [to |-> sink, type |-> "control_change", control |-> AllNotesOffControl,
     value |-> 0, channel |-> channel]

\* What one pass of a loop of all_notes_off gives the sinks that are there,
\* the port first
ToSinks(midi_port, callback, port_msg, callback_msg) ==
    (IF midi_port THEN <<port_msg>> ELSE <<>>)
       \o (IF callback THEN <<callback_msg>> ELSE <<>>)

\* all_notes_off, the loop over notes_to_turn_off from its k-th note on
RECURSIVE NoteOffs(_, _, _, _, _)
NoteOffs(notes_to_turn_off, k, channel, midi_port, callback) ==
    IF k > Len(notes_to_turn_off) THEN <<>>
    ELSE ToSinks(midi_port, callback,
                 NoteOffTo("port", notes_to_turn_off[k], channel),
                 NoteOffTo("callback", notes_to_turn_off[k], channel))
           \o NoteOffs(notes_to_turn_off, k + 1, channel, midi_port,
                       callback)

\* The list of a channel once the loop has removed each of the notes of
\* its copy
RECURSIVE RemovedAll(_, _, _)
RemovedAll(notes, notes_to_turn_off, k) ==
    IF k > Len(notes_to_turn_off) THEN notes
    ELSE RemovedAll(Removed(notes, notes_to_turn_off[k]), notes_to_turn_off,
                    k + 1)

\* all_notes_off, the first loop over channels from its k-th element on:
\* the lists it leaves and what it gives the sinks
RECURSIVE TurnOff(_, _, _, _, _)
TurnOff(lists, channels, k, midi_port, callback) ==
    IF k > Len(channels) THEN [lists |-> lists, out |-> <<>>]
    ELSE LET channel == channels[k]
             notes_to_turn_off == lists[channel]
             rest == TurnOff([lists EXCEPT ![channel] =
                                RemovedAll(@, notes_to_turn_off, 1)],
                             channels, k + 1, midi_port, callback)
         IN  [lists |-> rest.lists,
              out |-> NoteOffs(notes_to_turn_off, 1, channel, midi_port,
                               callback)
                        \o ToSinks(midi_port, callback,
                                   ControlChangeTo("port", channel),
                                   ControlChangeTo("callback", channel))
                        \o rest.out]

\* `channels = list(range(16))` when channels is None (<<>>); the list
\* given (<<list>>) otherwise
Listed(channels) ==
    IF channels = <<>> THEN [i \in 1..(MaxChannel + 1) |-> i - 1]
    ELSE channels[1]

\* all_notes_off(midi_port, send_midi_callback, channels)
all_notes_off(midi_port, callback, channels) ==
    LET done == TurnOff(tracked, Listed(channels), 1, midi_port,
                        callback)
    IN  /\ emitted' = done.out
        /\ tracked' = [c \in TrackedChannels |->
                          IF c \in Elements(Listed(channels)) THEN <<>>
                          ELSE done.lists[c]]

\* The lists of channels a caller gives: none, an empty one, one channel,
\* two channels, the same or not
ChannelLists ==
    {<<>>, <<(<<>>)>>} \cup {<<(<<c>>)>> : c \in TrackedChannels}
       \cup {<<(<<c, d>>)>> : c, d \in TrackedChannels}

OutsideTracking ==
    UNCHANGED <<playerVars, managerVars, importVars, trackerVars,
                clientVars, serverVars, filePlayVars>>

NextTracking ==
    \/ OutsideTracking
         /\ (\E note \in TrackedNotes, channel \in TrackedChannels :
                register_note_on(note, channel))
    \/ OutsideTracking
         /\ (\E note \in TrackedNotes, channel \in TrackedChannels :
                register_note_off(note, channel))
    \/ OutsideTracking
         /\ (\E midi_port, callback \in BOOLEAN,
                channels \in ChannelLists :
                all_notes_off(midi_port, callback, channels))

SpecTracking == Init /\ [][NextTracking]_vars

\* =============================================== MidiFilePlayer: playback
\* The most messages a file holds that are no meta messages, and the most
\* messages a player is followed for
MaxFileMessages == 2
MaxFileSent == 4

\* The names playback is asked for: of a file that can be loaded, and of
\* none
PlayNames == FileNames \cup {"g"}

\* MidiFilePlayer.set_midi_callback
player_set_midi_callback ==
    /\ player_callback' = TRUE
    /\ answered' = [by |-> "set_midi_callback", value |-> "None"]
    /\ UNCHANGED <<playback_task, task_file, current_file, file_stop_event,
                   file_sent, stop_called>>

\* `self.playback_task is not None and not self.playback_task.done()`
TaskUnfinished == playback_task = "pending"

\* MidiFilePlayer.start_playback
file_start_playback(name) ==
    IF TaskUnfinished
    THEN /\ answered' = [by |-> "start_playback", value |-> "False"]
         /\ UNCHANGED <<playback_task, task_file, current_file,
                        file_stop_event, player_callback, file_sent,
                        stop_called>>
    ELSE /\ playback_task' = "pending"
         /\ task_file' = name
         /\ answered' = [by |-> "start_playback", value |-> "True"]
         /\ stop_called' = FALSE
         /\ UNCHANGED <<current_file, file_stop_event, player_callback,
                        file_sent>>

\* MidiFilePlayer.stop_playback: nothing when current_file is None; else
\* the stop event is set and all_notes_off called, which gives the callback
\* the All Notes Off controller of each channel
file_stop_playback ==
    /\ stop_called' = TRUE
    /\ IF current_file = NoFile
       THEN /\ answered' = [by |-> "stop_playback", value |-> "False"]
            /\ UNCHANGED <<file_stop_event, file_sent>>
       ELSE /\ file_stop_event' = TRUE
            /\ answered' = [by |-> "stop_playback", value |-> "True"]
            /\ UNCHANGED file_sent
    /\ UNCHANGED <<playback_task, task_file, current_file, player_callback>>

\* play_file(name) returns False at one of its first two checks
PlayFileRefused == task_file \notin DOMAIN midi_files \/ ~player_callback

\* The task start_playback created runs: play_file has no await, so the
\* task runs it from its first line to its return in one step of the event
\* loop, and no other coroutine or callback runs meanwhile. The stop event
\* is cleared first and is found clear before each of the n messages of
\* the file, which are all sent; current_file is set on the way and is None
\* again at the return.
PlayFileTask(n) ==
    /\ playback_task = "pending"
    /\ playback_task' = "done"
    /\ IF PlayFileRefused
       THEN UNCHANGED <<file_stop_event, file_sent>>
       ELSE /\ file_sent + n <= MaxFileSent
            /\ file_stop_event' = FALSE
            /\ file_sent' = file_sent + n
    /\ current_file' = NoFile
    /\ UNCHANGED <<task_file, player_callback, answered, stop_called>>

OutsideFilePlay ==
    UNCHANGED <<playerVars, managerVars, trackerVars, clientVars, serverVars,
                trackingVars>>

NextFilePlay ==
    \/ OutsideImport
         /\ (\E name \in FileNames, tpb \in TicksPerBeat : load_file(name, tpb))
    \/ OutsideFilePlay /\ UNCHANGED importVars /\ player_set_midi_callback
    \/ OutsideFilePlay /\ UNCHANGED importVars
         /\ (\E name \in PlayNames : file_start_playback(name))
    \/ OutsideFilePlay /\ UNCHANGED importVars /\ file_stop_playback
    \/ OutsideFilePlay /\ UNCHANGED importVars
         /\ (\E n \in 1..MaxFileMessages : PlayFileTask(n))

SpecFilePlay == Init /\ [][NextFilePlay]_vars

\* ================================================================ claims
\* The latest run has ended the way r says.
LastRunEnded(r) == hist # <<>> /\ hist[Len(hist)].end \in r

\* sent[j] turns off the note sent[i] turned on.
TurnsOff(j, i) ==
    /\ sent[j].kind = "note_off"
    /\ sent[j].params.note = sent[i].params.note
    /\ sent[j].params.channel = sent[i].params.channel

\* The note_off messages in sent that the timer of note (run, ev, k) sent
TimerOffs(run, ev, k) ==
    {j \in 1..Len(sent) : /\ sent[j].kind = "note_off" /\ sent[j].by = "timer"
                          /\ sent[j].run = run /\ sent[j].ev = ev /\ sent[j].k = k}

\* C1: when a run has ended by exhaustion or by stop_playback(), every
\* note-off timer has finished and the send capability never raised, every
\* note_on of the run is followed by a note_off for the same pitch and
\* channel.
C1_EveryNoteOnIsTurnedOff ==
    (LastRunEnded({"completed", "stopped"}) /\ timers = {} /\ faults = 0)
        => \A i \in 1..Len(sent) :
              sent[i].kind = "note_on"
                  => \E j \in (i + 1)..Len(sent) : TurnsOff(j, i)

\* The messages play() sent walking the timeline, by their place in sent
Dispatched == {i \in 1..Len(sent) : sent[i].by = "play"}

\* stop_playback() has been called on the run under way or just ended, when
\* sent held n messages.
StopRequestedAt(n) == hist # <<>> /\ hist[Len(hist)].stopAt = n

\* C2: once stop_playback() has been called on a Playing Song, the run
\* dispatches no further timeline event.
C2_NothingDispatchedAfterStop ==
    \A n \in 0..Len(sent) :
        StopRequestedAt(n) => \A i \in Dispatched : i <= n

\* The runs walking the timeline
Walking == {i \in 1..Len(hist) : hist[i].end = "running"}

\* play() is entered, by a caller or as the first step of a background task,
\* or start_playback() is called.
PlayCalled == Play \/ StartPlayback \/ \E t \in 1..Len(tasks) : TaskStep(t)

\* C3: at most one run walks the timeline at any time, and play() or
\* start_playback() called while the Song is playing starts no run, sends
\* nothing, leaves the run under way where it is and reports "already
\* playing".
C3_OneRunAtATime ==
    [][/\ Cardinality(Walking') <= 1
       /\ (is_playing /\ PlayCalled)
              => /\ report'.msg = "already_playing"
                 /\ Len(tasks') <= Len(tasks)
                 /\ UNCHANGED <<songVars, is_playing, stop_event, runVars,
                                timers, sent, hist>>]_vars

\* A call was refused while a run was waiting for its next event, after it
\* had dispatched something.
C3_Witness ==
    /\ report.msg = "already_playing"
    /\ pc = "wait" /\ Walking # {} /\ sent # <<>>

\* C4: when the send capability has raised while play() was dispatching an
\* event, the Song is not playing any more once play() is over.
C4_FailedRunReturnsToIdle ==
    LastRunEnded({"dispatch_failed"}) => ~is_playing

\* A run has begun in this step.
RunBegins == Len(hist') = Len(hist) + 1

\* C5: once a run has ended by exhaustion or by stop the Song is not playing,
\* the next play(), called directly or as the first step of the task of
\* start_playback(), begins a run, and a run that begins starts at the first
\* event of the sorted timeline with the stop signal cleared and nothing
\* sent yet.
C5_EndedRunCanBeReplayed ==
    [][/\ LastRunEnded({"completed", "stopped"})' => (~is_playing' /\ pc' = "idle")
       /\ (LastRunEnded({"completed", "stopped"})
             /\ (Play \/ \E t \in 1..Len(tasks) : TaskStep(t))) => RunBegins
       /\ RunBegins => /\ is_playing' /\ ~stop_event'
                       /\ pc' = "walk" /\ idx' = 1 /\ last_event_time' = 0
                       /\ walk' = Sorted(events) /\ active_notes' = <<>>
                       /\ sent' = <<>>]_vars

\* A second run is sending, after a first one that was stopped.
C5_Witness ==
    /\ Len(hist) = 2
    /\ hist[1].end = "stopped" /\ hist[2].end = "running"
    /\ sent # <<>> /\ ~stop_event

\* The ways of putting n things in order
Orders(n) == {f \in [1..n -> 1..n] : \A i, j \in 1..n : i # j => f[i] # f[j]}

\* w holds the events of evs in non-decreasing time order, those of equal
\* time in the order they were appended.
StableTimeOrder(w, evs) ==
    /\ Len(w) = Len(evs)
    /\ \E f \in Orders(Len(evs)) :
          /\ \A i \in 1..Len(w) : w[i] = evs[f[i]]
          /\ \A i, j \in 1..Len(w) :
                i < j => \/ evs[f[i]].time < evs[f[j]].time
                         \/ evs[f[i]].time = evs[f[j]].time /\ f[i] < f[j]

\* The messages play() sent for the p-th event of the walk, by their place
\* in sent
DispatchedFor(p) == {i \in Dispatched : sent[i].ev = p}

\* What play() sent for the p-th event of the walk is what an event of that
\* kind calls for.
DispatchedAsItsKind(e, p) ==
    LET at == DispatchedFor(p)
    IN  CASE e.event_type = NOTE ->
                 /\ Cardinality(at) = 1
                 /\ \A i \in at : /\ sent[i].kind = "note_on"
                                  /\ sent[i].params.note = e.pitch
                                  /\ sent[i].params.channel = e.channel
          [] e.event_type = CHORD ->
                 /\ Cardinality(at) = Len(e.notes)
                 /\ \A k \in 1..Len(e.notes) :
                       Cardinality({i \in at : /\ sent[i].kind = "note_on"
                                               /\ sent[i].k = k
                                               /\ sent[i].params.note = e.notes[k]
                                               /\ sent[i].params.channel = e.channel}) = 1
          [] e.event_type = REST -> at = {}
          [] e.event_type = PROGRAM_CHANGE ->
                 /\ Cardinality(at) = 1
                 /\ \A i \in at : /\ sent[i].kind = "program_change"
                                  /\ sent[i].params.program = e.program
                                  /\ sent[i].params.channel = e.channel
          [] e.event_type = CONTROL_CHANGE ->
                 /\ Cardinality(at) = 1
                 /\ \A i \in at : /\ sent[i].kind = "control_change"
                                  /\ sent[i].params.control = e.control
                                  /\ sent[i].params.value = e.value
                                  /\ sent[i].params.channel = e.channel

\* C6: when a run has ended by exhaustion, never stopped, the timeline it
\* walked is the events in non-decreasing time order, ties in the order of
\* appending; play() sent for each event what its kind calls for, once, and
\* sent it in the order of the timeline.
C6_EveryEventOnceInOrder ==
    LastRunEnded({"completed"}) =>
        LET w == hist[Len(hist)].walk
        IN  /\ StableTimeOrder(w, events)
            /\ \A p \in 1..Len(w) : DispatchedAsItsKind(w[p], p)
            /\ \A i \in Dispatched : sent[i].ev \in 1..Len(w)
            /\ \A i, j \in Dispatched :
                  i < j => \/ sent[i].ev < sent[j].ev
                           \/ sent[i].ev = sent[j].ev /\ sent[i].k < sent[j].k

\* A run has completed on two different events of the same time.
C6_Witness ==
    /\ LastRunEnded({"completed"})
    /\ Len(events) = 2
    /\ events[1].time = events[2].time /\ events[1] # events[2]
    /\ Cardinality(Dispatched) >= 2

\* The note_on messages of the run under way or just ended, by their place
\* in sent
NoteOns == {i \in Dispatched : sent[i].kind = "note_on"}

\* The duration of the event the note_on sent[i] was sent for
DurationOf(i) == hist[Len(hist)].walk[sent[i].ev].duration

\* The note-off timers that have not returned yet, by the note they are for
Live(ts) == {<<t.run, t.ev, t.k>> : t \in ts}

\* The note-off timer started for the note_on sent[i] has returned.
TimerOver(i) == <<sent[i].run, sent[i].ev, sent[i].k>> \notin Live(timers)

\* The note_off messages the timer of the note_on sent[i] sent
OffsOfTimer(i) == TimerOffs(sent[i].run, sent[i].ev, sent[i].k)

\* C7: while the send capability never raised, the timer of a note of
\* positive duration has sent exactly one note_off by the time it returns,
\* whether its duration elapsed or the stop signal fired first.
C7_TimerAlwaysEmitsOne ==
    faults = 0 =>
        \A i \in NoteOns :
            (DurationOf(i) > 0 /\ TimerOver(i)) => Cardinality(OffsOfTimer(i)) = 1

\* The messages of the given kind the run under way or just ended, its
\* timers included, sent for a pitch and channel, by their place in sent
SentFor(kind, pitch, channel) ==
    {i \in 1..Len(sent) : /\ sent[i].kind = kind
                          /\ sent[i].run = Len(hist)
                          /\ sent[i].params.note = pitch
                          /\ sent[i].params.channel = channel}

\* C8: when a run has ended by exhaustion with no stop request, all its
\* timers have returned and the send capability never raised, each pitch and
\* channel got as many note_off as note_on: no note was turned off both by
\* the cleanup of play() and by its own timer.
C8_OneNoteOffPerNote ==
    (LastRunEnded({"completed"}) /\ timers = {} /\ faults = 0) =>
        \A i \in NoteOns :
            Cardinality(SentFor("note_off", sent[i].params.note, sent[i].params.channel))
              = Cardinality(SentFor("note_on", sent[i].params.note, sent[i].params.channel))

\* C9: while the send capability never raised, the timer of a note of
\* duration 0 has sent exactly one note_off by the time it returns, with the
\* stop signal set or not.
C9_ZeroDurationGetsOneNoteOff ==
    faults = 0 =>
        \A i \in NoteOns :
            (DurationOf(i) = 0 /\ TimerOver(i)) => Cardinality(OffsOfTimer(i)) = 1

\* The timer of a note of duration 0 that was dispatched with the stop
\* signal set has returned.
C9_Witness ==
    /\ stop_event /\ faults = 0
    /\ \E i \in NoteOns :
          /\ DurationOf(i) = 0 /\ TimerOver(i)
          /\ StopRequestedAt(i - 1)

\* C10 as the spec states it: start_playback() called while a background
\* task is walking the timeline sets the stop signal, for that run to end and
\* a new one to follow.
C10_StartPlaybackStopsUnfinishedRun ==
    [][(StartPlayback /\ \E t \in 1..Len(tasks) : tasks[t] = "running")
           => stop_event']_vars

\* C10: start_playback() called while the Song is playing requests no stop
\* and creates no task: it reports "already playing" and leaves the run and
\* its task as they are. Called while the Song is not playing, it cancels the
\* background task that has not begun to play, if there is one, without
\* waiting, and creates a new task. At most one background task is
\* unfinished and at most one run walks the timeline at any time.
C10_StartPlaybackKeepsOneTask ==
    [][/\ Len(tasks') <= 1 /\ Cardinality(Walking') <= 1
       /\ StartPlayback =>
             /\ UNCHANGED <<stop_event, is_playing, hist, sent, timers, runVars>>
             /\ IF is_playing
                THEN report'.msg = "already_playing" /\ UNCHANGED tasks
                ELSE tasks' = <<"pending">>]_vars

\* start_playback() was refused while a background task was waiting for its
\* next event, no stop requested.
C10_Witness ==
    /\ report = [by |-> "start_playback", msg |-> "already_playing"]
    /\ tasks = <<"running">> /\ runner = 1
    /\ pc = "wait" /\ ~stop_event /\ sent # <<>>

\* C11: stop_current_song called while the current Song is not playing, or
\* while there is none, changes no Song, sends nothing and does not return
\* success.
C11_StopOfIdleSongIsNoSuccess ==
    [][(stop_current_song
          /\ (current_song = None \/ ~held[current_song].is_playing))
           => /\ held' = held /\ delivered' = delivered
              /\ returned'.value # "True"]_vars

C13_RefusedPlaySongChangesNothing ==
    [][/\ \A name \in Keys :
             (play_song(name) /\ (~manager_callback \/ name \notin songs))
                 => /\ returned' = [by |-> "play_song", value |-> "False"]
                    /\ UNCHANGED <<songs, current_song, manager_callback, held,
                                   delivered>>
       /\ (play_current_song /\ (~manager_callback \/ current_song = None))
             => /\ returned' = [by |-> "play_current_song", value |-> "False"]
                /\ UNCHANGED <<songs, current_song, manager_callback, held,
                               delivered>>]_vars

\* play_song has returned False for a Song of the collection, the manager
\* having no send capability, while another Song is current.
C13_Witness ==
    /\ returned = [by |-> "play_song", value |-> "False"]
    /\ ~manager_callback
    /\ current_song # None /\ songs \ {current_song} # {}

\* C14: sort_events(), called on any log the add_* operations have built,
\* leaves in sorted_events the events of the log in non-decreasing time
\* order, those of equal time in the order they were appended, and leaves
\* the log and the fields of its events as they were.
C14_SortIsStableAndPure ==
    [][sort_events => /\ StableTimeOrder(sorted_events', events)
                      /\ events' = events
                      /\ is_sorted']_vars

\* sort_events() has reordered a log of three events, two of them different
\* events of the same time.
C14_Witness ==
    /\ is_sorted /\ Len(events) = 3 /\ sorted_events # events
    /\ StableTimeOrder(sorted_events, events)
    /\ \E i, j \in 1..3 : /\ i < j /\ events[i] # events[j]
                          /\ events[i].time = events[j].time

\* The ends, time + duration, of the events of the log that carry a
\* duration: the notes, the chords and the rests
EndsOfTimed ==
    {events[i].time + events[i].duration :
        i \in {j \in 1..Len(events) : events[j].event_type \in {NOTE, CHORD, REST}}}

\* C15: after any sequence of add_* and clear() operations the duration of
\* the Song is the latest end of its notes, chords and rests, and 0 when it
\* has none.
C15_DurationIsLatestEnd ==
    IF EndsOfTimed = {} THEN duration = 0
    ELSE duration \in EndsOfTimed /\ \A x \in EndsOfTimed : x <= duration

\* The ends, time + duration, of all the events of the log, those of the
\* program changes and control changes (whose duration is 0) included
EndsOfAll == {events[i].time + events[i].duration : i \in 1..Len(events)}

\* C15, amended: the duration of the Song is the latest end of all the events
\* appended since the last clear(), program and control changes included,
\* and never less than 0.
C15_DurationIsLatestEndOrZero ==
    /\ duration \in EndsOfAll \cup {0}
    /\ \A x \in EndsOfAll \cup {0} : x <= duration

\* A Song whose duration is the time of a program change that comes after
\* the end of every note, chord and rest, next to an event that ends before 0
C15_Witness ==
    /\ \E i \in 1..Len(events) : /\ events[i].event_type = PROGRAM_CHANGE
                                  /\ events[i].time = duration
    /\ \A x \in EndsOfTimed : x < duration
    /\ \E x \in EndsOfTimed : x < 0

\* C16: an add_* operation never decreases the duration of the Song,
\* whatever the time and the duration of the event, negative ones included.
C16_AddNeverShortens ==
    [][Len(events') = Len(events) + 1 => duration' >= duration]_vars

\* An event that ends before time 0 has been appended to a Song of positive
\* duration, which kept its duration.
C16_Witness ==
    /\ Len(events) >= 2
    /\ events[Len(events)].time + events[Len(events)].duration < 0
    /\ duration > 0

\* C17: for a Song built from the add_* operations, from_json(to_json(s))
\* has the same events in the same order with the same kind and fields and
\* the same derived duration, and serializing it again yields the record of
\* the first serialization.
C17_JsonRoundTrip ==
    LET first == to_json(ThisSong)
        back == from_json(first)
    IN  /\ back.events = events
        /\ back.duration = duration
        /\ to_json(back) = first

\* A Song of a note, a chord and a control change with fields other than
\* the defaults of from_json has been read back from its serialization
C17_Witness ==
    /\ Len(events) = 3
    /\ \E i, j, k \in 1..3 :
          /\ events[i].event_type = NOTE /\ events[i].pitch # 60
          /\ events[i].velocity # 64
          /\ events[j].event_type = CHORD /\ events[j].notes # <<>>
          /\ events[k].event_type = CONTROL_CHANGE /\ events[k].value # 0
    /\ from_json(to_json(ThisSong)).events = events
    /\ duration > 0

\* A message that ends a note: note_off, or note_on with velocity 0
EndsNote(m) == m.type = "note_off" \/ (m.type = "note_on" /\ m.velocity = 0)

\* C18: importing a track that consists of a note_on followed after d > 0
\* ticks by the matching note_off (or note_on with velocity 0) yields
\* exactly one Note, with time 0 and the duration d ticks converted at the
\* reference tempo: 0.5 s for 480 ticks at 480 ticks per beat.
C18_NoteOffSetsTheDuration ==
    (/\ stage = "done"
     /\ Len(read) = 2
     /\ read[1].track = read[2].track
     /\ read[1].msg.type = "note_on" /\ read[1].msg.velocity > 0
     /\ read[1].msg.time = 0
     /\ EndsNote(read[2].msg)
     /\ read[2].msg.note = read[1].msg.note
     /\ read[2].msg.channel = read[1].msg.channel
     /\ read[2].msg.time > 0)
    => events = <<Note(read[1].msg.note, 0,
                       tick2second(read[2].msg.time, ticks_per_beat,
                                   ReferenceTempo),
                       read[1].msg.velocity, read[1].msg.channel)>>

\* This step of the import reads a message that ends a note
NoteOffRead ==
    /\ Len(read') = Len(read) + 1
    /\ EndsNote(read'[Len(read')].msg)

\* The Notes of the log that qualify as still open for the message this
\* step reads: same pitch and channel, and an end not before the time of
\* the message by more than the slack
StillOpen ==
    LET m == read'[Len(read')].msg
    IN  {i \in 1..Len(events) :
            /\ events[i].event_type = NOTE
            /\ events[i].pitch = m.note
            /\ events[i].channel = m.channel
            /\ events[i].time + events[i].duration
                 > absolute_time' - MatchSlack}

\* The log after the step differs from the log before it in the duration
\* of event i only, which closes the gap up to the time of the message
OnlyRewrites(i) ==
    events' = [events EXCEPT ![i].duration = absolute_time' - events[i].time]

\* C19: when a note-off arrives and several Notes qualify as still open,
\* the most recently opened one (the latest in time, and among those the
\* last appended) is rewritten, and nothing else changes.
C19_RewritesMostRecentlyOpened ==
    [][NoteOffRead /\ StillOpen # {}
         => \E i \in StillOpen :
               /\ \A j \in StillOpen :
                     \/ events[j].time < events[i].time
                     \/ events[j].time = events[i].time /\ j <= i
               /\ OnlyRewrites(i)]_vars

\* C19, amended: when a note-off arrives and several Notes qualify as still
\* open, the one appended first (the earliest opened of a track) is
\* rewritten, and nothing else changes.
C19_RewritesFirstAppended ==
    [][NoteOffRead /\ StillOpen # {}
         => \E i \in StillOpen : /\ \A j \in StillOpen : i <= j
                                 /\ OnlyRewrites(i)]_vars

\* Two Notes of the same pitch and channel were open at the time of the
\* note-off read last: the first has been closed at that time, the second
\* still has its temporary duration
C19_Witness ==
    /\ Len(events) = 2 /\ Len(read) = 3
    /\ EndsNote(read[3].msg)
    /\ \A i \in 1..2 : /\ events[i].event_type = NOTE
                       /\ events[i].pitch = read[3].msg.note
                       /\ events[i].channel = read[3].msg.channel
    /\ events[1].time < events[2].time
    /\ events[1].time + events[1].duration = absolute_time
    /\ events[1].duration # TemporaryDuration
    /\ events[2].duration = TemporaryDuration
    /\ events[2].time + events[2].duration > absolute_time - MatchSlack

RECURSIVE RunningTime(_, _)
\* The sum of the tick deltas of the messages of a track in a stream, each
\* converted at the reference tempo
RunningTime(history, track) ==
    IF history = <<>> THEN 0
    ELSE LET last == history[Len(history)]
         IN  RunningTime(SubSeq(history, 1, Len(history) - 1), track)
               + (IF last.track = track
                  THEN tick2second(last.msg.time, ticks_per_beat',
                                   ReferenceTempo)
                  ELSE 0)

\* C20: the time of every imported event is the running sum, over the
\* messages of its track up to its own, of the tick deltas converted at
\* 500000 microseconds per beat, and it keeps that time; a set_tempo message
\* changes no event.
C20_TimesAtReferenceTempo ==
    [][/\ Len(events') = Len(events) + 1
          => events'[Len(events')].time = RunningTime(read', track_idx')
       /\ Len(events') = Len(events)
          => \A i \in 1..Len(events) : events'[i].time = events[i].time
       /\ (/\ Len(read') = Len(read) + 1
           /\ read'[Len(read')].msg.type = "set_tempo")
          => events' = events]_vars

\* A set_tempo message that declares another tempo was followed in its
\* track by a note, which was imported at the reference tempo, and the note
\* of the next track is at time 0
C20_Witness ==
    /\ Len(read) = 3 /\ Len(events) = 2
    /\ read[1].msg.type = "set_tempo" /\ read[1].msg.tempo # ReferenceTempo
    /\ read[2].track = read[1].track /\ read[2].msg.time > 0
    /\ read[3].track # read[1].track
    /\ events[1].time = tick2second(read[1].msg.time + read[2].msg.time,
                                    ticks_per_beat, ReferenceTempo)
    /\ events[2].time = 0

\* C21: convert_to_song returns either a Song whose duration is the latest
\* end of its events and whose sorted view is valid (is_sorted, and
\* sorted_events the events in time order), or None; and the call, failed or
\* not, leaves the table of loaded files as it was.
C21_SongOrNone ==
    [][converted' # converted /\ converted' # "none"
         => /\ converted' \in {"Song", "None"}
            /\ midi_files' = midi_files
            /\ converted' = "Song"
                 => /\ events' # <<>>
                    /\ \E i \in 1..Len(events') :
                          duration' = events'[i].time + events'[i].duration
                    /\ \A i \in 1..Len(events') :
                          events'[i].time + events'[i].duration <= duration'
                    /\ is_sorted'
                    /\ StableTimeOrder(sorted_events', events')]_vars

\* A Song has been returned whose sorted view is not the order of the log,
\* and whose duration is not the one the additions had left
C21_Witness ==
    /\ stage = "done" /\ converted = "Song"
    /\ sorted_events # events
    /\ \E i \in 1..Len(events) : events[i].duration # TemporaryDuration
                                  /\ events[i].event_type = NOTE

\* The lines of the grid of the document that hold cells of notes: those
\* after the line of the channel names that are neither the separator under
\* it nor a "Row" line
DataLines ==
    LET n == HeaderLength(content)
    IN  {i \in (n + 2)..Len(content) :
            /\ content[i].mark = <<>>
            /\ ~(i = n + 2 /\ content[i].dashes)}

\* The row of data line i: the data lines before it are counted from 0,
\* or from the number of the last numbered "Row" line before it
RowOf(i) ==
    LET marks == {j \in (HeaderLength(content) + 2)..(i - 1) :
                     Len(content[j].mark) = 2}
    IN  IF marks = {}
        THEN Cardinality({j \in DataLines : j < i})
        ELSE LET m == CHOOSE j \in marks : \A k \in marks : k <= j
             IN  content[m].mark[2]
                   + Cardinality({j \in DataLines : m < j /\ j < i})

\* The cells of the grid, as <<line, column>>, that are in the column of a
\* channel and hold a note token that can be parsed
NoteCells ==
    {x \in DataLines \X (1..3) :
        /\ x[2] <= Len(content[x[1]].cells)
        /\ x[2] <= Len(content[HeaderLength(content) + 1].cells)
        /\ Len(content[x[1]].cells[x[2]]) >= 1
        /\ content[x[1]].cells[x[2]][1].t = "note"
        /\ content[x[1]].cells[x[2]][1].name \in DOMAIN note_values}

\* The value of the last line of the header that gives key an integer, the
\* default when there is none
InForce(key, default) ==
    LET given == {i \in 1..HeaderLength(content) :
                     content[i].key = key /\ content[i].value # <<>>}
    IN  IF given = {} THEN default
        ELSE content[CHOOSE i \in given : \A j \in given : j <= i].value[1]

\* (60 / tempo) / speed for the tempo and speed in force
RowSeconds ==
    (Minute \div InForce("TEMPO", TrackerTempo))
       \div InForce("SPEED", TrackerSpeed)

\* The volume of a cell, <<>> when the cell has no volume that is a number
VolumeOf(x) ==
    LET parts == content[x[1]].cells[x[2]]
    IN  IF Len(parts) >= 3 /\ parts[3].t = "number" THEN parts[3].value
        ELSE <<>>

\* Command cmd is the note that the cell x is to compile to; the velocity
\* is looked at when the cell has a volume
NoteFor(cmd, x) ==
    LET part == content[x[1]].cells[x[2]][1]
    IN  /\ cmd.command = "note"
        /\ cmd.pitch = (part.octave + 1) * 12 + note_values[part.name]
        /\ cmd.time = RowOf(x[1]) * RowSeconds
        /\ cmd.duration = RowSeconds
        /\ cmd.channel = x[2] - 1
        /\ VolumeOf(x) # <<>>
             => cmd.velocity = IF 2 * VolumeOf(x)[1] < 127
                               THEN 2 * VolumeOf(x)[1] ELSE 127

\* The note commands of the compile, by their place
NoteCommands ==
    {k \in 1..Len(midi_commands) : midi_commands[k].command = "note"}

\* C22: for every grid cell with a parseable note token at row r in channel
\* column c the compile emits exactly one note command, of pitch
\* (octave+1)*12 + offset, time r*(60/tempo)/speed, duration
\* (60/tempo)/speed, channel c and velocity min(127, 2*volume); TEMPO 120,
\* SPEED 4 and row 0 `C-4 00 64` give pitch 60, time 0, duration 0.125 s,
\* velocity 127.
C22_OneNotePerCell ==
    compiled = "returned" =>
        /\ Cardinality(NoteCommands) = Cardinality(NoteCells)
        /\ \A x \in NoteCells :
              Cardinality({k \in NoteCommands : NoteFor(midi_commands[k], x)})
                >= Cardinality({y \in NoteCells :
                       \A k \in NoteCommands :
                          NoteFor(midi_commands[k], y)
                             <=> NoteFor(midi_commands[k], x)})
        /\ (/\ Len(content) = 2 /\ content[1] \in ChannelHeaders
            /\ content[2].cells[1]
                 = <<NotePart("C", 4), NumberPart(0), NumberPart(64)>>)
           => midi_commands
                = <<[command |-> "note", pitch |-> 60, time |-> 0,
                     duration |-> 125000, velocity |-> 127, channel |-> 0]>>

\* A document with a tempo of its own and a "Row 4" line before the row of
\* `D#5 01 20` has been compiled: the note is at 4 rows of 150000
C22_Witness ==
    /\ compiled = "returned"
    /\ InForce("TEMPO", TrackerTempo) # TrackerTempo
    /\ \E x \in NoteCells : RowOf(x[1]) = 4
    /\ \E k \in NoteCommands :
          /\ midi_commands[k].pitch = 75 /\ midi_commands[k].time = 600000
          /\ midi_commands[k].velocity = 40

\* The note cells whose volume is missing or is a placeholder
NoVolumeCells ==
    {x \in NoteCells :
        LET parts == content[x[1]].cells[x[2]]
        IN  Len(parts) < 3 \/ parts[3].t = "placeholder"}

\* C23: a cell that has a note but no volume (the volume is missing or is
\* the placeholder) compiles to a note of velocity 64.
C23_NoVolumeGivesVelocity64 ==
    compiled = "returned" =>
        \A x \in NoVolumeCells :
           \E k \in NoteCommands : /\ NoteFor(midi_commands[k], x)
                                   /\ midi_commands[k].velocity = 64

\* C24: create_midi_song returns the status success and leaves a Song of
\* the given name registered in the song manager, with zero notes for a
\* document whose grid is empty or absent and with the compiled program
\* changes and notes for a well-formed document.
C24_CreateRegistersTheSong ==
    (/\ created.status # "none"
     /\ ~DivisionByZero(parse_tracker_content(content)))
    => /\ created.status = "success"
       /\ \E k \in songs : k[1] = created.name

\* A TEMPO or SPEED line whose value is not an integer
BadNumberLine(line) == line.key \in {"TEMPO", "SPEED"} /\ line.value = <<>>

\* The document without its TEMPO and SPEED lines that are not integers
WithoutBadNumbers == SelectSeq(content, LAMBDA line : ~BadNumberLine(line))

\* C25: a TEMPO or SPEED line whose value is not an integer leaves in force
\* what was in force before it, the defaults 120 and 4 when nothing else
\* was given, and the compile goes on with the other header lines and the
\* grid: it ends as it does for the document without the line, with the
\* same commands.
C25_BadNumberLineIsSkipped ==
    LET data == parse_tracker_content(content)
        other == parse_tracker_content(WithoutBadNumbers)
    IN  /\ data.tempo = InForce("TEMPO", TrackerTempo)
        /\ data.speed = InForce("SPEED", TrackerSpeed)
        /\ compiled = "raised" => DivisionByZero(other)
        /\ compiled = "returned"
             => /\ ~DivisionByZero(other)
                /\ midi_commands = tracker_to_midi_commands(other)

\* A document with TEMPO: 100, then a TEMPO line that is no integer, then
\* a grid has been compiled: its note of row 1 is at one row of tempo 100
C25_Witness ==
    /\ compiled = "returned"
    /\ Len(content) >= 2
    /\ content[1] = HeaderLine("TEMPO", <<100>>, <<>>)
    /\ BadNumberLine(content[2]) /\ content[2].key = "TEMPO"
    /\ \E k \in NoteCommands : midi_commands[k].time = 150000

Recognised(b) ==
    /\ b.json = "object"
    /\ "type" \in DOMAIN b.value
    /\ b.value.type \in {"note_on", "note_off", "program_change",
                         "control_change", "discover", "connect"}

\* The MCP method that goes by the name of a command type
MethodNamed(type) ==
    CASE type = "note_on" -> "midi.note_on"
      [] type = "note_off" -> "midi.note_off"
      [] type = "program_change" -> "midi.program_change"
      [] type = "control_change" -> "midi.control_change"
      [] type = "discover" -> "midi.discover"
      [] type = "connect" -> "midi.connect"

\* C28: process_claude_response sends exactly one request per block of a
\* recognised type, in the order of the blocks, each under the method of its
\* type, and the requests a client has sent are numbered claude-1,
\* claude-2, ... in the order they were sent; a block that is not valid JSON
\* is passed over and the blocks after it are still served.
C28_OneRequestPerRecognisedCommand ==
    [][process_claude_response(text')
         => LET wanted == SelectSeq(text', Recognised)
            IN  /\ Len(posted') = Len(posted) + Len(wanted)
                /\ \A i \in 1..Len(wanted) :
                      /\ Len(posted) + i <= Len(posted')
                      /\ posted'[Len(posted) + i].method
                           = MethodNamed(wanted[i].value.type)
                /\ \A i \in 1..Len(posted') :
                      posted'[i].id = <<"claude-", i>>]_vars

\* The note_on the body d asks of a port: the note, velocity and channel of
\* the body, the velocity 64 and the channel 0 where it has none
NoteOnAsked(d) ==
    [type |-> "note_on", note |-> d.note,
     velocity |-> IF "velocity" \in DOMAIN d THEN d.velocity ELSE 64,
     channel |-> IF "channel" \in DOMAIN d THEN d.channel ELSE 0]

\* A note_on request for port p with body d is served, by either route
NoteOnRequest(d, p) ==
    \/ send_note_on(d, p)
    \/ mcp_endpoint(MCPRequest("midi.note_on", d @@ [port_id |-> p]))
    \/ p = 0 /\ mcp_endpoint(MCPRequest("midi.note_on", d))

\* No port id has its port opened a second time, and a request for a port
\* that is open opens nothing
OpenedOnceAndReused ==
    /\ \A p \in PortIds : opened'[p] > opened[p] => opened[p] = 0
    /\ \A p \in PortIds, d \in NoteData :
          (NoteOnRequest(d, p) /\ p \in active_ports)
            => /\ opened' = opened
               /\ active_ports' = active_ports

\* C29 as stated: every note_on request, by either route, has exactly one
\* message given to the port it names, a note_on of the requested note,
\* velocity and channel; the port of a port id is opened at most once and
\* then reused.
C29_EveryNoteOnIsSent ==
    [][/\ \A p \in PortIds, d \in NoteData :
            NoteOnRequest(d, p)
              => port_sent' = Append(port_sent,
                                     [port |-> p, msg |-> NoteOnAsked(d)])
       /\ OpenedOnceAndReused]_vars

\* C29: every note_on request that names a port the system has, by either
\* route, has exactly one message given to that port, a note_on of the
\* requested note, velocity and channel; a note_on request that names no
\* port of the system is answered with an error and nothing is sent; the
\* port of a port id is opened at most once and then reused.
C29_NoteOnToAPortThatExistsIsSent ==
    [][/\ \A p \in PortIds, d \in NoteData :
            NoteOnRequest(d, p)
              => IF p < devices
                 THEN /\ port_sent' = Append(port_sent,
                                            [port |-> p,
                                             msg |-> NoteOnAsked(d)])
                      /\ response' \in {"200", "result"}
                 ELSE /\ port_sent' = port_sent
                      /\ response' \in {"400", "error -32603"}
       /\ OpenedOnceAndReused]_vars

\* Two note_on requests for port 0 have been served, the later one by
\* JSON-RPC: both messages went to the port, which was opened once
C29_Witness ==
    /\ Len(port_sent) = 2
    /\ \A i \in 1..2 : port_sent[i].port = 0 /\ port_sent[i].msg.type = "note_on"
    /\ port_sent[2].msg.velocity = 64
    /\ opened[0] = 1
    /\ response = "result"

\* The time a note-off timer still has to wait before its duration is over
TimeLeft(t) ==
    CASE t.st = "new" -> Max(0, t.duration)
      [] t.st = "wait" -> t.remaining
      [] OTHER -> 0

\* The timers of the run under way that were started for a pitch and channel
TimersFor(pitch, channel) ==
    {t \in timers : /\ t.run = Len(hist)
                    /\ t.pitch = pitch /\ t.channel = channel}

\* C30: in a run with no stop request no note_off is sent for a note before
\* its duration is over: the cleanup of play() sends none for a note whose
\* timer still has time to wait, so the notes sounding when the last event
\* is dispatched are held to their end, and a timer sends its note_off only
\* when its timeout has fired.
C30_NoNoteOffBeforeTheDuration ==
    [][/\ (Cleanup /\ ~stop_event /\ StopRequestedAt(-1))
            => \A j \in (Len(sent) + 1)..Len(sent') :
                  \A t \in TimersFor(sent'[j].params.note,
                                     sent'[j].params.channel) :
                      TimeLeft(t) = 0
       /\ \A t \in timers :
             (TimerResume(t) /\ sent' # sent /\ ~stop_event)
                => t.st = "timeout"]_vars

\* C31: once stop_playback() has been called after a start_playback() or
\* play() that was not refused, be it before the background run has taken
\* its first step, no event of the timeline is dispatched.
C31_NothingDispatchedOnceStopIsAsked ==
    [][~(stop_asked /\ Dispatch)]_vars

\* The Song stored under k has a run that is to begin, or one under way
\* whose stop has not been requested
RunsUnstopped(k) ==
    \/ held[k].task = "pending"
    \/ held[k].task = "running" /\ ~held[k].stop_event

\* C32: a Song of the manager with a playback run pending or under way and
\* no stop requested is the manager's current_song, the one
\* stop_current_song stops.
C32_WhatRunsIsTheCurrentSong ==
    \A k \in Keys : RunsUnstopped(k) => current_song = k

\* C33: no note-off timer of an earlier run sends its note_off after a later
\* run of the Song has begun: every note_off sent since the latest run began
\* is for a note_on of that run.
C33_NoNoteOffFromAnEarlierRun ==
    \A j \in 1..Len(sent) :
        sent[j].kind = "note_off" => sent[j].run = Len(hist)

\* ------------------------------------------------ Song: edits and runs
\* A step that appends an event to the log
Appends == Len(events') = Len(events) + 1

\* A step that edits the log while a run is under way
EditsDuringRun == pc # "idle" /\ <<events, sorted_events, is_sorted>>' #
                                  <<events, sorted_events, is_sorted>>

\* C34: whenever is_sorted is true, sorted_events is the events in stable
\* time order; every add_* leaves is_sorted false; a run walks the stable
\* time order of the events appended before it began; an edit of the log
\* during a run leaves the run's timeline, its place in it and what it has
\* sent alone, and the run that completes has sent for each event of the
\* timeline it began with what that event's kind calls for.
C34_EditsAndRuns ==
    /\ [](is_sorted => StableTimeOrder(sorted_events, events))
    /\ [][Appends => ~is_sorted']_vars
    /\ [][RunBegins => /\ StableTimeOrder(walk', events)
                       /\ hist'[Len(hist')].walk = walk']_vars
    /\ [][EditsDuringRun => UNCHANGED <<walk, idx, sent, hist, pc>>]_vars
    /\ [](pc # "idle" => walk = hist[Len(hist)].walk)
    /\ [](LastRunEnded({"completed"}) =>
             \A p \in 1..Len(hist[Len(hist)].walk) :
                 DispatchedAsItsKind(hist[Len(hist)].walk[p], p))

\* A run is under way and has sent something, and the log no longer holds
\* the events of its timeline.
C34_Witness ==
    /\ pc = "wait" /\ Dispatched # {}
    /\ ~StableTimeOrder(walk, events)

\* ------------------------------------------------ Song: one stop flag each
\* The step requests the stop of the Song stored under k.
StopRequested(k) == ~held[k].stop_event /\ held'[k].stop_event

\* C35: a step in which stop_playback() takes effect on one Song leaves
\* the stop flag and the playing state of every other Song as they were,
\* and leaves every other Song whose run is under way entirely alone, its
\* run still able to send.
C35_StopIsPerSong ==
    [][\A k, j \in Keys :
          (k # j /\ StopRequested(k))
            => /\ held'[j].stop_event = held[j].stop_event
               /\ held'[j].is_playing = held[j].is_playing
               /\ held[j].task = "running" => held'[j] = held[j]]_vars

\* Two Songs are playing, the stop of one of them requested and the other
\* one going on.
C35_Witness ==
    \E k, j \in Keys :
        /\ k # j
        /\ held[k].is_playing /\ held[k].stop_event
        /\ held[j].is_playing /\ ~held[j].stop_event /\ held[j].task = "running"

\* ------------------------------------------------ tracker: rows and time
\* The first line of the grid after the line of the channel names and the
\* separator under it
FirstRow ==
    LET n == HeaderLength(content)
    IN  IF n + 2 <= Len(content) /\ content[n + 2].dashes THEN n + 3 ELSE n + 2

\* The "Row n" lines of the grid before line i
MarksBefore(i) == {j \in FirstRow..(i - 1) : content[j].mark # <<>>}

\* The time-step of line i of the grid: its place among the lines of the
\* grid, from 0, when no "Row" line comes before it; else the n of the last
\* "Row n" line before it plus the lines in between
TimeStep(i) ==
    IF MarksBefore(i) = {} THEN i - FirstRow
    ELSE LET m == CHOOSE j \in MarksBefore(i) : \A k \in MarksBefore(i) : k <= j
         IN  content[m].mark[2] + (i - m - 1)

\* Command cmd is a note of cell x at the time-step of its line
AtItsTimeStep(cmd, x) ==
    /\ cmd.command = "note"
    /\ cmd.channel = x[2] - 1
    /\ cmd.time = TimeStep(x[1]) * RowSeconds

\* The lines of the grid that hold no note that can be parsed
EmptyRows == {i \in DataLines : i >= FirstRow /\ \A x \in NoteCells : x[1] # i}

\* C36: a row of the grid with no parseable note gives no note command and
\* no error and still takes one time-step: every note command is that of a
\* cell holding a parseable note, at the time-step of its line times the
\* seconds of a row, where the time-steps count every line of the grid
\* from 0, empty ones too, and a "Row n" line makes the line after it
\* time-step n.
C36_EmptyRowsTakeATimeStep ==
    compiled = "returned" =>
        /\ \A k \in NoteCommands :
              \E x \in NoteCells : AtItsTimeStep(midi_commands[k], x)
        /\ \A x \in NoteCells :
              \E k \in NoteCommands : AtItsTimeStep(midi_commands[k], x)
        /\ Cardinality(NoteCommands) = Cardinality(NoteCells)

\* A document whose grid has a row with no parseable note before a row
\* with one, and no "Row" line, has been compiled: the note is one
\* time-step in.
C36_Witness ==
    /\ compiled = "returned"
    /\ \A i \in FirstRow..Len(content) : content[i].mark = <<>>
    /\ \E i \in EmptyRows : \E x \in NoteCells : i < x[1]
    /\ \E k \in NoteCommands : midi_commands[k].time = RowSeconds

\* C37: for every tempo and speed the header can give, 0 included, the
\* compile returns its commands without raising, and every note of them
\* has a time that is not negative and a duration that is positive.
C37_CompileNeverRaises ==
    /\ compiled # "raised"
    /\ compiled = "returned" =>
          \A k \in NoteCommands : /\ midi_commands[k].time >= 0
                                   /\ midi_commands[k].duration > 0

\* ------------------------------------------------ import: an empty stream
\* C38: convert_to_song of a loaded stream that holds no note, program
\* change or control change returns a Song with no event and duration 0,
\* not a failure.
C38_EmptyStreamGivesAnEmptySong ==
    (stage = "done" /\ events = <<>>)
        => converted = "Song" /\ duration = 0

\* ------------------------------------------------ all_notes_off
\* How often channel c stands in the list
Listings(list, c) == Cardinality({i \in 1..Len(list) : list[i] = c})

\* The messages of out given to sink
GivenTo(out, sink) == {i \in 1..Len(out) : out[i].to = sink}

\* What all_notes_off is to give a sink, for the lists it finds: for each
\* channel listed one note_off, of velocity 0, for each note of its list,
\* the All Notes Off controller once for each time the channel is listed,
\* and nothing else
SinkServed(out, sink, lists, list) ==
    /\ \A c \in Elements(list) : \A n \in Elements(lists[c]) :
          Cardinality({i \in GivenTo(out, sink) :
                          out[i] = NoteOffTo(sink, n, c)}) = 1
    /\ \A c \in TrackedChannels :
          Cardinality({i \in GivenTo(out, sink) :
                          out[i] = ControlChangeTo(sink, c)}) = Listings(list, c)
    /\ \A i \in GivenTo(out, sink) :
          \/ /\ out[i].type = "note_off" /\ out[i].channel \in Elements(list)
             /\ out[i].note \in Elements(lists[out[i].channel])
          \/ out[i].type = "control_change"

\* C39: no list of a channel ever holds a note twice; a call of
\* all_notes_off gives each sink it is called with one note_off for each
\* note tracked on a listed channel and the All Notes Off controller for
\* each listed channel, empties the lists of the listed channels and
\* leaves the list of every other channel as it was.
C39_TrackingAndAllNotesOff ==
    /\ [](\A c \in TrackedChannels : \A i, j \in 1..Len(tracked[c]) :
             i # j => tracked[c][i] # tracked[c][j])
    /\ [][\A midi_port, callback \in BOOLEAN,
            channels \in ChannelLists :
             all_notes_off(midi_port, callback, channels)
               => /\ midi_port =>
                       SinkServed(emitted', "port", tracked, Listed(channels))
                  /\ callback =>
                       SinkServed(emitted', "callback", tracked,
                                  Listed(channels))
                  /\ ~midi_port => GivenTo(emitted', "port") = {}
                  /\ ~callback => GivenTo(emitted', "callback") = {}
                  /\ \A c \in TrackedChannels :
                        tracked'[c] = IF c \in Elements(Listed(channels))
                                      THEN <<>> ELSE tracked[c]]_vars

\* all_notes_off has just turned off two notes of one channel, and a
\* channel that was not listed still tracks a note.
C39_Witness ==
    /\ Cardinality({i \in 1..Len(emitted) : emitted[i].type = "note_off"}) = 2
    /\ \E i \in 1..Len(emitted) : emitted[i].type = "control_change"
    /\ \E c \in TrackedChannels : tracked[c] # <<>>

\* ------------------------------------------------ MidiFilePlayer: playback
\* C40: start_playback returns False and starts nothing while an earlier
\* task is unfinished; stop_playback returns False and sends nothing when
\* no file is playing; and once stop_playback has been called after a
\* start_playback that returned True, no message of the file is sent.
C40_OneTaskAndStopEndsIt ==
    [][/\ (TaskUnfinished /\ answered'.by = "start_playback"
             /\ answered' # answered)
           => /\ answered'.value = "False"
              /\ UNCHANGED <<playback_task, task_file, file_sent>>
       /\ (current_file = NoFile /\ answered'.by = "stop_playback"
             /\ answered' # answered)
           => /\ answered'.value = "False"
              /\ UNCHANGED <<playback_task, file_sent>>
       /\ stop_called => file_sent' = file_sent]_vars

====
